---- MODULE Spec2Model ----
(***************************************************************************)
(* The performer of the block wheel (wheel/core/performer.rs) as a state   *)
(* machine, together with the schema, the gap index, the task queue, the   *)
(* defragmentation queues, the LRU cache and the interpreter it drives.    *)
(***************************************************************************)
EXTENDS Integers, Sequences, FiniteSets, TLC

(***************************************************************************)
(* storage::Layout                                                         *)
(***************************************************************************)
wheel_header_size == 24
block_header_size == 20
commit_tag_size == 16
eof_tag_size == 4

data_size_block_min == block_header_size + commit_tag_size

data_size_service_min == wheel_header_size + eof_tag_size

(***************************************************************************)
(* Bounds of the model.                                                    *)
(***************************************************************************)
\* Params::init_wheel_size_bytes: room for two blocks of one byte and a byte to spare
WheelSize == 139
\* the largest payload a client writes
MaxBlockSize == 2
\* the wheel and the block of the test of the schema (schema.rs, tests::init and
\* tests::sample_hello_world)
init_size_bytes_total == 128
sample_hello_world_len == 13
\* Params::lru_cache_size_bytes
LruBytes == 2
\* how many requests of each kind the clients submit
MaxWrites == 4
MaxReads == 2
MaxDeletes == 2
MaxFlushes == 1
MaxIters == 1
\* how many writes and requests the clients submit where the Info reply is followed
MaxWritesInfo == 5
MaxRequestsInfo == 6
\* how many writes, flushes and iterations the clients submit where two iterations
\* and two flushes are followed
MaxWritesIter == 2
MaxFlushesBoth == 2
MaxItersBoth == 2
\* the wheel that holds three blocks of MaxBlockSize bytes, and how many writes the
\* clients submit where a read is queued on a block in the middle of a move
WheelSizeMove == 142
MaxWritesMove == 3
\* how many values the crc of a payload has
CrcModulus == 8
\* how many block frames a file has that is opened
MaxFrames == 3
\* how many requests the clients submit in all, and how many await a reply at once
MaxRequests == 5
MaxOutstanding == 3
\* how many requests the clients submit in all where the defragmentation is followed
MaxRequestsDefrag == 6

(***************************************************************************)
(* Values that stand for an absent id, key or byte buffer.                 *)
(***************************************************************************)
NoId == 0 - 1

NoKey == [space_available |-> 0, serial |-> 0]

NoBytes == [len |-> 0, tag |-> 0]

NoGaps == [left |-> NoKey, right |-> NoKey]

Min(S) == CHOOSE x \in S : \A y \in S : x <= y

Max(S) == CHOOSE x \in S : \A y \in S : x >= y

(***************************************************************************)
(* block::Id                                                               *)
(***************************************************************************)
IdInit == 0

\* Id::next that hands the same serial out again
IdNext_same(id) == id

IdNext(id) == id + 1

(***************************************************************************)
(* Schema: block index, gap index, next block id.                          *)
(*   blocks : regular block id -> [offset, size]                           *)
(*   eof    : [id, offset], the end-of-file entry of the block index       *)
(*   gaps   : set of [space_available, serial, left, right]; left = NoId   *)
(*            is StartAndBlock, right = NoId is BlockAndEnd                *)
(***************************************************************************)
SpaceKeyOf(g) == [space_available |-> g.space_available, serial |-> g.serial]

Gap(space, serial, left, right) ==
    [space_available |-> space, serial |-> serial, left |-> left, right |-> right]

\* initialize_empty with a first gap that keeps no room for the frame of a block
initialize_empty_whole(size_bytes_total) ==
    [ size_bytes_total |-> size_bytes_total,
      next_block_id |-> IdNext(IdInit),
      blocks |-> << >>,
      eof |-> [id |-> IdInit, offset |-> wheel_header_size],
      gaps |-> {Gap(size_bytes_total - data_size_service_min, 1, IdInit, NoId)},
      gap_serial |-> 1 ]

\* Schema::new + Schema::initialize_empty
initialize_empty(size_bytes_total) ==
    LET total_service_size == data_size_service_min + data_size_block_min
    IN  [ size_bytes_total |-> size_bytes_total,
          next_block_id |-> IdNext(IdInit),
          blocks |-> << >>,
          eof |-> [id |-> IdInit, offset |-> wheel_header_size],
          gaps |-> IF size_bytes_total > total_service_size
                   THEN {Gap(size_bytes_total - total_service_size, 1, IdInit, NoId)}
                   ELSE {},
          gap_serial |-> 1 ]

IsRegular(sch, id) == id \in DOMAIN sch.blocks

\* the offset of an entry of the block index (regular or end of file)
EntryOffset(sch, id) ==
    IF id = sch.eof.id THEN sch.eof.offset ELSE sch.blocks[id].offset

\* index: the neighbour pointers of a block entry, by file offset
RightNeighbor(sch, id) ==
    LET after == {b \in DOMAIN sch.blocks : sch.blocks[b].offset > sch.blocks[id].offset}
    IN  IF after = {} THEN sch.eof.id
        ELSE CHOOSE b \in after : \A c \in after : sch.blocks[b].offset <= sch.blocks[c].offset

LeftNeighbor(sch, id) ==
    LET before == {b \in DOMAIN sch.blocks : sch.blocks[b].offset < sch.blocks[id].offset}
    IN  IF before = {} THEN NoId
        ELSE CHOOSE b \in before : \A c \in before : sch.blocks[b].offset >= sch.blocks[c].offset

\* the keys of the gaps adjacent to a block entry (NoKey when there is none)
LeftGapKey(sch, id) ==
    LET gs == {g \in sch.gaps : g.right = id}
    IN  IF gs = {} THEN NoKey ELSE SpaceKeyOf(CHOOSE g \in gs : TRUE)

RightGapKey(sch, id) ==
    LET gs == {g \in sch.gaps : g.left = id}
    IN  IF gs = {} THEN NoKey ELSE SpaceKeyOf(CHOOSE g \in gs : TRUE)

\* gaps::Index::space_total
space_total(gaps) ==
    LET RECURSIVE Sum(_)
        Sum(S) == IF S = {} THEN 0
                  ELSE LET g == CHOOSE x \in S : TRUE
                       IN  g.space_available + Sum(S \ {g})
    IN  Sum(gaps)

\* the order of the gap index: by (space_available, serial)
KeyLess(a, b) ==
    \/ a.space_available < b.space_available
    \/ a.space_available = b.space_available /\ a.serial < b.serial

\* gaps::Index::allocate: best fit, then the aggregate of all gaps
allocate(gaps, space_required) ==
    LET fit == {g \in gaps : g.space_available >= space_required}
    IN  IF fit # {}
        THEN [tag |-> "Success",
              gap |-> CHOOSE g \in fit : \A h \in fit \ {g} : KeyLess(g, h)]
        ELSE IF space_total(gaps) >= space_required
        THEN [tag |-> "PendingDefragmentation", gap |-> Gap(0, 0, NoId, NoId)]
        ELSE [tag |-> "NoSpaceLeft", gap |-> Gap(0, 0, NoId, NoId)]

\* DefragOp::Queue for a block that now has a gap on its left, DefragOp::None otherwise
DefragNone == [tag |-> "None", defrag_gaps |-> NoGaps, moving_block_id |-> NoId]

DefragQueue(sch, moving) ==
    [tag |-> "Queue",
     defrag_gaps |-> [left |-> LeftGapKey(sch, moving), right |-> RightGapKey(sch, moving)],
     moving_block_id |-> moving]

\* PlaceBlock with the block between two blocks put right behind the header of the
\* left one, as if the left one were empty
PlaceBlock_overlapping(sch, block_id, space_required, g) ==
    LET at_end == g.right = NoId
        block_offset ==
            IF at_end THEN sch.eof.offset
            ELSE IF g.left = NoId THEN wheel_header_size
            ELSE sch.blocks[g.left].offset + data_size_block_min
        eof_block_id == sch.next_block_id
        space_left == g.space_available - space_required
        insert == space_left >= data_size_block_min
        serial == sch.gap_serial + 1
        new_gap == Gap(space_left - data_size_block_min, serial,
                       block_id, IF at_end THEN NoId ELSE g.right)
        right_gap == IF at_end THEN [new_gap EXCEPT !.left = eof_block_id] ELSE new_gap
    IN  [sch EXCEPT
            !.blocks = (block_id :> [offset |-> block_offset, size |-> space_required]) @@ @,
            !.eof = IF at_end
                    THEN [id |-> eof_block_id,
                          offset |-> block_offset + space_required + data_size_block_min]
                    ELSE @,
            !.next_block_id = IF at_end THEN IdNext(@) ELSE @,
            !.gaps = (@ \ {g}) \cup (IF insert THEN {right_gap} ELSE {}),
            !.gap_serial = IF insert THEN serial ELSE @]

\* PlaceBlock with an end-of-file entry that keeps its id and takes none of the
\* ids of the blocks
PlaceBlock_eof_unnumbered(sch, block_id, space_required, g) ==
    LET at_end == g.right = NoId
        block_offset ==
            IF at_end THEN sch.eof.offset
            ELSE IF g.left = NoId THEN wheel_header_size
            ELSE sch.blocks[g.left].offset + data_size_block_min + sch.blocks[g.left].size
        eof_block_id == sch.eof.id
        space_left == g.space_available - space_required
        insert == space_left >= data_size_block_min
        serial == sch.gap_serial + 1
        new_gap == Gap(space_left - data_size_block_min, serial,
                       block_id, IF at_end THEN NoId ELSE g.right)
        right_gap == IF at_end THEN [new_gap EXCEPT !.left = eof_block_id] ELSE new_gap
    IN  [sch EXCEPT
            !.blocks = (block_id :> [offset |-> block_offset, size |-> space_required]) @@ @,
            !.eof = IF at_end
                    THEN [id |-> eof_block_id,
                          offset |-> block_offset + space_required + data_size_block_min]
                    ELSE @,
            !.next_block_id = @,
            !.gaps = (@ \ {g}) \cup (IF insert THEN {right_gap} ELSE {}),
            !.gap_serial = IF insert THEN serial ELSE @]

\* PlaceBlock with the end-of-file entry left where it was when a block is placed
\* at the end
PlaceBlock_eof_stays(sch, block_id, space_required, g) ==
    LET at_end == g.right = NoId
        block_offset ==
            IF at_end THEN sch.eof.offset
            ELSE IF g.left = NoId THEN wheel_header_size
            ELSE sch.blocks[g.left].offset + data_size_block_min + sch.blocks[g.left].size
        eof_block_id == sch.next_block_id
        space_left == g.space_available - space_required
        insert == space_left >= data_size_block_min
        serial == sch.gap_serial + 1
        new_gap == Gap(space_left - data_size_block_min, serial,
                       block_id, IF at_end THEN NoId ELSE g.right)
        right_gap == IF at_end THEN [new_gap EXCEPT !.left = eof_block_id] ELSE new_gap
    IN  [sch EXCEPT
            !.blocks = (block_id :> [offset |-> block_offset, size |-> space_required]) @@ @,
            !.eof = IF at_end THEN [id |-> eof_block_id, offset |-> block_offset] ELSE @,
            !.next_block_id = IF at_end THEN IdNext(@) ELSE @,
            !.gaps = (@ \ {g}) \cup (IF insert THEN {right_gap} ELSE {}),
            !.gap_serial = IF insert THEN serial ELSE @]

\* PlaceBlock with the block between two blocks put where the payload of the left
\* one ends, on its commit tag
PlaceBlock_on_commit_tag(sch, block_id, space_required, g) ==
    LET at_end == g.right = NoId
        block_offset ==
            IF at_end THEN sch.eof.offset
            ELSE IF g.left = NoId THEN wheel_header_size
            ELSE sch.blocks[g.left].offset + block_header_size + sch.blocks[g.left].size
        eof_block_id == sch.next_block_id
        space_left == g.space_available - space_required
        insert == space_left >= data_size_block_min
        serial == sch.gap_serial + 1
        new_gap == Gap(space_left - data_size_block_min, serial,
                       block_id, IF at_end THEN NoId ELSE g.right)
        right_gap == IF at_end THEN [new_gap EXCEPT !.left = eof_block_id] ELSE new_gap
    IN  [sch EXCEPT
            !.blocks = (block_id :> [offset |-> block_offset, size |-> space_required]) @@ @,
            !.eof = IF at_end
                    THEN [id |-> eof_block_id,
                          offset |-> block_offset + space_required + data_size_block_min]
                    ELSE @,
            !.next_block_id = IF at_end THEN IdNext(@) ELSE @,
            !.gaps = (@ \ {g}) \cup (IF insert THEN {right_gap} ELSE {}),
            !.gap_serial = IF insert THEN serial ELSE @]

\* PlaceBlock with whatever is left of the gap kept as a gap, the bytes of a frame
\* not set aside
PlaceBlock_gap_unframed(sch, block_id, space_required, g) ==
    LET at_end == g.right = NoId
        block_offset ==
            IF at_end THEN sch.eof.offset
            ELSE IF g.left = NoId THEN wheel_header_size
            ELSE sch.blocks[g.left].offset + data_size_block_min + sch.blocks[g.left].size
        eof_block_id == sch.next_block_id
        space_left == g.space_available - space_required
        insert == space_left > 0
        serial == sch.gap_serial + 1
        new_gap == Gap(space_left, serial,
                       block_id, IF at_end THEN NoId ELSE g.right)
        right_gap == IF at_end THEN [new_gap EXCEPT !.left = eof_block_id] ELSE new_gap
    IN  [sch EXCEPT
            !.blocks = (block_id :> [offset |-> block_offset, size |-> space_required]) @@ @,
            !.eof = IF at_end
                    THEN [id |-> eof_block_id,
                          offset |-> block_offset + space_required + data_size_block_min]
                    ELSE @,
            !.next_block_id = IF at_end THEN IdNext(@) ELSE @,
            !.gaps = (@ \ {g}) \cup (IF insert THEN {right_gap} ELSE {}),
            !.gap_serial = IF insert THEN serial ELSE @]

\* the placement of a block of space_required bytes at the left edge of gap g
PlaceBlock(sch, block_id, space_required, g) ==
    LET at_end == g.right = NoId
        block_offset ==
            IF at_end THEN sch.eof.offset
            ELSE IF g.left = NoId THEN wheel_header_size
            ELSE sch.blocks[g.left].offset + data_size_block_min + sch.blocks[g.left].size
        eof_block_id == sch.next_block_id
        space_left == g.space_available - space_required
        insert == space_left >= data_size_block_min
        serial == sch.gap_serial + 1
        new_gap == Gap(space_left - data_size_block_min, serial,
                       block_id, IF at_end THEN NoId ELSE g.right)
        right_gap == IF at_end THEN [new_gap EXCEPT !.left = eof_block_id] ELSE new_gap
    IN  [sch EXCEPT
            !.blocks = (block_id :> [offset |-> block_offset, size |-> space_required]) @@ @,
            !.eof = IF at_end
                    THEN [id |-> eof_block_id,
                          offset |-> block_offset + space_required + data_size_block_min]
                    ELSE @,
            !.next_block_id = IF at_end THEN IdNext(@) ELSE @,
            !.gaps = (@ \ {g}) \cup (IF insert THEN {right_gap} ELSE {}),
            !.gap_serial = IF insert THEN serial ELSE @]

\* process_write_block_request that places blocks after the last block only and
\* never in the space that a delete has freed between blocks
process_write_block_request_at_end(sch, space_required, defrag_pending_bytes) ==
    LET block_id == sch.next_block_id
        sch1 == [sch EXCEPT !.next_block_id = IdNext(@)]
        alloc == allocate({g \in sch1.gaps : g.right = NoId}, space_required)
        none == [schema |-> sch1, defrag_op |-> DefragNone, block_id |-> block_id,
                 right_space_key |-> NoKey, space_required |-> space_required]
    IN  CASE alloc.tag = "Success" ->
               LET g == alloc.gap
                   sch2 == PlaceBlock(sch1, block_id, space_required, g)
                   inserted == sch2.gap_serial # sch1.gap_serial
               IN  [tag |-> "Perform", schema |-> sch2,
                    defrag_op |-> IF inserted /\ g.right # NoId /\ IsRegular(sch2, g.right)
                                  THEN DefragQueue(sch2, g.right) ELSE DefragNone,
                    block_id |-> block_id,
                    right_space_key |-> IF inserted
                                        THEN [space_available |->
                                                  g.space_available - space_required
                                                      - data_size_block_min,
                                              serial |-> sch2.gap_serial]
                                        ELSE NoKey,
                    space_required |-> space_required]
          [] alloc.tag = "PendingDefragmentation" ->
               [tag |-> "QueuePendingDefrag"] @@ none
          [] OTHER ->
               IF defrag_pending_bytes + space_required > space_total(sch1.gaps)
               THEN [tag |-> "ReplyNoSpaceLeft"] @@ none
               ELSE [tag |-> "QueuePendingDefrag"] @@ none

\* Schema::process_write_block_request
process_write_block_request(sch, space_required, defrag_pending_bytes) ==
    LET block_id == sch.next_block_id
        sch1 == [sch EXCEPT !.next_block_id = IdNext(@)]
        alloc == allocate(sch1.gaps, space_required)
        none == [schema |-> sch1, defrag_op |-> DefragNone, block_id |-> block_id,
                 right_space_key |-> NoKey, space_required |-> space_required]
    IN  CASE alloc.tag = "Success" ->
               LET g == alloc.gap
                   sch2 == PlaceBlock(sch1, block_id, space_required, g)
                   inserted == sch2.gap_serial # sch1.gap_serial
               IN  [tag |-> "Perform", schema |-> sch2,
                    defrag_op |-> IF inserted /\ g.right # NoId /\ IsRegular(sch2, g.right)
                                  THEN DefragQueue(sch2, g.right) ELSE DefragNone,
                    block_id |-> block_id,
                    right_space_key |-> IF inserted
                                        THEN [space_available |->
                                                  g.space_available - space_required
                                                      - data_size_block_min,
                                              serial |-> sch2.gap_serial]
                                        ELSE NoKey,
                    space_required |-> space_required]
          [] alloc.tag = "PendingDefragmentation" ->
               [tag |-> "QueuePendingDefrag"] @@ none
          [] OTHER ->
               IF defrag_pending_bytes + space_required > space_total(sch1.gaps)
               THEN [tag |-> "ReplyNoSpaceLeft"] @@ none
               ELSE [tag |-> "QueuePendingDefrag"] @@ none

\* Schema::process_read_block_request, process_delete_block_request: index lookup
process_read_block_request(sch, id) ==
    IF IsRegular(sch, id) THEN "Perform" ELSE "NotFound"

process_delete_block_request(sch, id) ==
    IF IsRegular(sch, id) THEN "Perform" ELSE "NotFound"

\* the block entry removed and its flanking gaps merged into one gap; when the
\* block was the last one the end-of-file entry moves left, next to the left
\* neighbour, and the merged gap is the one after it
RemoveBlock(sch, id) ==
    LET e == sch.blocks[id]
        left == LeftNeighbor(sch, id)
        right == RightNeighbor(sch, id)
        at_end == right = sch.eof.id
        flank == {g \in sch.gaps : g.right = id \/ g.left = id \/ (at_end /\ g.right = NoId)}
        serial == sch.gap_serial + 1
        space == e.size + space_total(flank) + Cardinality(flank) * data_size_block_min
        merged == IF at_end THEN Gap(space, serial, sch.eof.id, NoId)
                  ELSE Gap(space, serial, left, right)
    IN  [sch EXCEPT
            !.blocks = [b \in DOMAIN sch.blocks \ {id} |-> sch.blocks[b]],
            !.eof.offset = IF ~at_end THEN @
                           ELSE IF left = NoId THEN wheel_header_size
                           ELSE sch.blocks[left].offset + data_size_block_min
                                    + sch.blocks[left].size,
            !.gaps = (@ \ flank) \cup {merged},
            !.gap_serial = serial]

\* Schema::process_delete_block_task_done
process_delete_block_task_done(sch, id) ==
    LET left == LeftNeighbor(sch, id)
        right == RightNeighbor(sch, id)
        sch1 == RemoveBlock(sch, id)
        freed == [space_available |->
                      (CHOOSE g \in sch1.gaps : g.serial = sch1.gap_serial).space_available,
                  serial |-> sch1.gap_serial]
    IN  [schema |-> sch1,
         defrag_op |-> IF IsRegular(sch1, right) THEN DefragQueue(sch1, right)
                       ELSE IF left # NoId /\ LeftGapKey(sch1, left) # NoKey
                       THEN DefragQueue(sch1, left)
                       ELSE DefragNone,
         freed_space_key |-> freed]

\* Schema::process_delete_block_task_done_defrag: the block moves to the left edge
\* of the merged gap and keeps its id
process_delete_block_task_done_defrag(sch, id) ==
    LET e == sch.blocks[id]
        right == RightNeighbor(sch, id)
        sch1 == RemoveBlock(sch, id)
        merged == CHOOSE g \in sch1.gaps : g.serial = sch1.gap_serial
        sch2 == PlaceBlock(sch1, id, e.size, merged)
        inserted == sch2.gap_serial # sch1.gap_serial
    IN  [schema |-> sch2,
         defrag_op |-> IF inserted /\ IsRegular(sch2, right)
                       THEN DefragQueue(sch2, right) ELSE DefragNone,
         freed_space_key |-> IF inserted
                             THEN [space_available |->
                                       merged.space_available - e.size - data_size_block_min,
                                   serial |-> sch2.gap_serial]
                             ELSE NoKey]

\* the sum of the sizes of the blocks of the index
data_bytes_used(sch) ==
    LET RECURSIVE Sum(_)
        Sum(S) == IF S = {} THEN 0
                  ELSE LET b == CHOOSE x \in S : TRUE
                       IN  sch.blocks[b].size + Sum(S \ {b})
    IN  Sum(DOMAIN sch.blocks)

\* Schema::info
info(sch) ==
    LET blocks_count == Cardinality(DOMAIN sch.blocks)
        service_bytes_used == data_size_service_min + blocks_count * data_size_block_min
    IN  [blocks_count |-> blocks_count,
         wheel_size_bytes |-> sch.size_bytes_total,
         service_bytes_used |-> service_bytes_used,
         data_bytes_used |-> data_bytes_used(sch),
         defrag_write_pending_bytes |-> 0,
         bytes_free |-> sch.size_bytes_total - service_bytes_used - data_bytes_used(sch)]

NoInfo ==
    [blocks_count |-> 0, wheel_size_bytes |-> 0, service_bytes_used |-> 0,
     data_bytes_used |-> 0, defrag_write_pending_bytes |-> 0, bytes_free |-> 0]

\* Schema::next_block_id_from: the smallest live block id >= from
next_block_id_from(sch, from) ==
    LET ids == {b \in DOMAIN sch.blocks : b >= from}
    IN  IF ids = {} THEN NoId ELSE Min(ids)

\* DefragGaps::is_still_relevant
is_still_relevant(sch, defrag_gaps, block_id) ==
    /\ IsRegular(sch, block_id)
    /\ LeftGapKey(sch, block_id) = defrag_gaps.left
    /\ RightGapKey(sch, block_id) = defrag_gaps.right

(***************************************************************************)
(* task::Task: one record shape for the three kinds and their contexts.    *)
(*   kind    : "WriteBlock" | "ReadBlock" | "DeleteBlock"                  *)
(*   ctx_tag : "External" | "Defrag" | "IterBlocks"                        *)
(***************************************************************************)
Task(kind, ctx_tag, context, defrag_gaps, block_bytes, block_size, next_block_id) ==
    [kind |-> kind, ctx_tag |-> ctx_tag, context |-> context, defrag_gaps |-> defrag_gaps,
     block_bytes |-> block_bytes, block_size |-> block_size, next_block_id |-> next_block_id]

NoTask == Task("None", "None", 0, NoGaps, NoBytes, 0, NoId)

(***************************************************************************)
(* task::queue::Queue                                                      *)
(*   tasks     : block id -> the FIFO of the tasks pending on the block    *)
(*   triggers  : the blocks registered for dispatch                        *)
(*   is_queued : the blocks registered or with a task at the interpreter   *)
(*   flush     : the pending flush requests                                *)
(***************************************************************************)
QueueNew == [tasks |-> << >>, triggers |-> {}, is_queued |-> {}, flush |-> << >>]

TasksOf(q, id) == IF id \in DOMAIN q.tasks THEN q.tasks[id] ELSE << >>

SetTasks(q, id, seq) ==
    [q EXCEPT !.tasks = IF seq = << >>
                        THEN [b \in DOMAIN q.tasks \ {id} |-> q.tasks[b]]
                        ELSE (id :> seq) @@ q.tasks]

\* BlockLens::push_task
push_task(q, id, task) == SetTasks(q, id, Append(TasksOf(q, id), task))

\* the position of the first task of a kind in the FIFO of a block (0: none)
FirstOfKind(q, id, kind) ==
    LET ks == {i \in 1..Len(TasksOf(q, id)) : TasksOf(q, id)[i].kind = kind}
    IN  IF ks = {} THEN 0 ELSE Min(ks)

RemoveAt(seq, i) == SubSeq(seq, 1, i - 1) \o SubSeq(seq, i + 1, Len(seq))

\* BlockLens::pop_write_task, pop_read_task, pop_delete_task
peek_kind(q, id, kind) == TasksOf(q, id)[FirstOfKind(q, id, kind)]

pop_kind(q, id, kind) == SetTasks(q, id, RemoveAt(TasksOf(q, id), FirstOfKind(q, id, kind)))

\* BlockLens::pop_task: the head of the FIFO
pop_task(q, id) == SetTasks(q, id, Tail(TasksOf(q, id)))

\* BlockLens::finish
finish(q, id) == [q EXCEPT !.is_queued = @ \ {id}]

\* BlockLens::enqueue
enqueue(q, sch, id) ==
    IF IsRegular(sch, id) /\ TasksOf(q, id) # << >> /\ id \notin q.is_queued
    THEN [q EXCEPT !.triggers = @ \cup {id}, !.is_queued = @ \cup {id}]
    ELSE q

\* Queue::next_trigger: the elevator over the offsets of the registered blocks
next_trigger(q, sch, current_offset) ==
    LET ahead == {b \in q.triggers : sch.blocks[b].offset >= current_offset}
        from == IF ahead # {} THEN ahead ELSE q.triggers
    IN  CHOOSE b \in from : \A c \in from : sch.blocks[b].offset <= sch.blocks[c].offset

\* Queue::is_empty_tasks
is_empty_tasks(q) == DOMAIN q.tasks = {} /\ q.is_queued = {}

\* Queue::push_flush, pop_flush
push_flush(q, context) == [q EXCEPT !.flush = Append(@, context)]

pop_flush(q) == [q EXCEPT !.flush = Tail(@)]

(***************************************************************************)
(* lru::Cache: most recently used first, a byte budget.                    *)
(***************************************************************************)
LruTotal(lru) ==
    LET RECURSIVE Sum(_)
        Sum(i) == IF i = 0 THEN 0 ELSE lru[i].bytes.len + Sum(i - 1)
    IN  Sum(Len(lru))

LruWithout(lru, id) == SelectSeq(lru, LAMBDA e : e.id # id)

RECURSIVE LruEvict(_)
LruEvict(lru) ==
    IF Len(lru) > 1 /\ LruTotal(lru) > LruBytes
    THEN LruEvict(SubSeq(lru, 1, Len(lru) - 1))
    ELSE lru

lru_insert(lru, id, bytes) == LruEvict(<<[id |-> id, bytes |-> bytes]>> \o LruWithout(lru, id))

lru_has(lru, id) == \E i \in 1..Len(lru) : lru[i].id = id

lru_bytes(lru, id) == lru[CHOOSE i \in 1..Len(lru) : lru[i].id = id].bytes

lru_get(lru, id) == <<[id |-> id, bytes |-> lru_bytes(lru, id)]>> \o LruWithout(lru, id)

\* lru::Cache::invalidate that leaves the entry in the cache
lru_invalidate_kept(lru, id) == lru

\* lru::Cache::invalidate
lru_invalidate(lru, id) == LruWithout(lru, id)

(***************************************************************************)
(* defrag::Queues                                                          *)
(*   pending : FIFO of [context, block_bytes, space_required]              *)
(*   tasks   : set of [defrag_gaps, moving_block_id]                       *)
(***************************************************************************)
DefragNew(enabled) ==
    [enabled |-> enabled, pending |-> << >>, tasks |-> {},
     in_progress_tasks_count |-> 0, in_progress_tasks_limit |-> 1]

\* PendingQueue::pending_bytes
pending_bytes(pending) ==
    LET RECURSIVE Sum(_)
        Sum(i) == IF i = 0 THEN 0 ELSE pending[i].space_required + Sum(i - 1)
    IN  Sum(Len(pending))

\* PendingQueue::push that puts the write at the front
pending_push_front(pending, context, block_bytes, space_required) ==
    <<[context |-> context, block_bytes |-> block_bytes,
       space_required |-> space_required]>> \o pending

\* PendingQueue::push
pending_push(pending, context, block_bytes, space_required) ==
    Append(pending, [context |-> context, block_bytes |-> block_bytes,
                     space_required |-> space_required])

\* PendingQueue::pop_at_most: the front element, when it fits
pending_fits(pending, space_available) ==
    pending # << >> /\ Head(pending).space_required <= space_available

\* TaskQueue::push
defrag_tasks_push(defrag, defrag_op) ==
    IF defrag.enabled /\ defrag_op.tag = "Queue"
    THEN [defrag EXCEPT !.tasks = @ \cup {[defrag_gaps |-> defrag_op.defrag_gaps,
                                           moving_block_id |-> defrag_op.moving_block_id]}]
    ELSE defrag

\* TaskQueue::pop: the task of the block at the lowest offset among the live blocks
defrag_tasks_live(defrag, sch) == {t \in defrag.tasks : IsRegular(sch, t.moving_block_id)}

defrag_tasks_pop(defrag, sch) ==
    LET live == defrag_tasks_live(defrag, sch)
    IN  CHOOSE t \in live : \A u \in live \ {t} :
            \/ sch.blocks[t.moving_block_id].offset < sch.blocks[u.moving_block_id].offset
            \/ /\ t.moving_block_id = u.moving_block_id
               /\ \/ KeyLess(t.defrag_gaps.left, u.defrag_gaps.left)
                  \/ /\ t.defrag_gaps.left = u.defrag_gaps.left
                     /\ KeyLess(t.defrag_gaps.right, u.defrag_gaps.right)

(***************************************************************************)
(* performer::Op and performer::EventOp                                    *)
(***************************************************************************)
Event(kind, context, op, block_id, block_bytes, cursor) ==
    [kind |-> kind, context |-> context, op |-> op, block_id |-> block_id,
     block_bytes |-> block_bytes, cursor |-> cursor, info |-> NoInfo]

NoEvent == Event("None", 0, "None", NoId, NoBytes, NoId)

Op(tag, event, offset, block_id, task) ==
    [tag |-> tag, event |-> event, offset |-> offset, block_id |-> block_id, task |-> task]

OpIdle == Op("Idle", NoEvent, 0, NoId, NoTask)

OpEvent(event) == Op("Event", event, 0, NoId, NoTask)

OpQuery(tag) == Op(tag, NoEvent, 0, NoId, NoTask)

OpInterpretTask(offset, block_id, task) == Op("InterpretTask", NoEvent, offset, block_id, task)

\* what a handler returns: the performer it leaves and the Op
Ret(s, op) == [inner |-> s, op |-> op]

\* a failed assert!, unwrap, panic! or unreachable!
Panic(s, why) == Ret([s EXCEPT !.fault = why], OpQuery("Panic"))

(***************************************************************************)
(* DoneTask and BackgroundTask                                             *)
(***************************************************************************)
DoneTask(tag, block_id, block_bytes, freed_space_key) ==
    [tag |-> tag, block_id |-> block_id, block_bytes |-> block_bytes,
     freed_space_key |-> freed_space_key]

DoneNone == DoneTask("None", NoId, NoBytes, NoKey)

BgIdle(current_offset) == [current_offset |-> current_offset, state |-> "Idle", block_id |-> NoId]

\* Inner::new
InnerNew(schema, enabled) ==
    [schema |-> schema, lru_cache |-> << >>, defrag |-> DefragNew(enabled),
     bg_task |-> BgIdle(0), tasks_queue |-> QueueNew, done_task |-> DoneNone,
     fault |-> "none"]

\* cancel_defrag_task, with the unwrap of the defrag option before it
cancel_defrag_task(s) ==
    IF ~s.defrag.enabled THEN [s EXCEPT !.fault = "unwrap on a None defrag"]
    ELSE IF s.defrag.in_progress_tasks_count = 0
    THEN [s EXCEPT !.fault = "assert in_progress_tasks_count > 0"]
    ELSE [s EXCEPT !.defrag.in_progress_tasks_count = @ - 1]

\* incoming_request_write_block_perform
incoming_request_write_block_perform(s, context, block_bytes, perform) ==
    LET q1 == push_task(s.tasks_queue, perform.block_id,
                        Task("WriteBlock", "External", context, NoGaps, block_bytes,
                             block_bytes.len, NoId))
    IN  [s EXCEPT !.defrag = defrag_tasks_push(@, perform.defrag_op),
                  !.tasks_queue = enqueue(q1, s.schema, perform.block_id)]

\* Inner::flush_defrag_pending_queue
RECURSIVE flush_defrag_pending_queue(_, _)
flush_defrag_pending_queue(s, space_key) ==
    IF ~s.defrag.enabled \/ space_key = NoKey
       \/ ~pending_fits(s.defrag.pending, space_key.space_available)
    THEN s
    ELSE LET request == Head(s.defrag.pending)
             s1 == [s EXCEPT !.defrag.pending = Tail(@)]
             w == process_write_block_request(s1.schema, request.block_bytes.len,
                                              pending_bytes(s1.defrag.pending))
             s2 == [s1 EXCEPT !.schema = w.schema]
         IN  CASE w.tag = "Perform" ->
                    flush_defrag_pending_queue(
                        incoming_request_write_block_perform(
                            s2, request.context, request.block_bytes, w),
                        w.right_space_key)
               [] w.tag = "QueuePendingDefrag" ->
                    [s2 EXCEPT !.defrag.pending =
                        pending_push(@, request.context, request.block_bytes, w.space_required)]
               [] OTHER -> [s2 EXCEPT !.fault = "unreachable: ReplyNoSpaceLeft in flush"]

\* maybe_run_background_task taking the task queued last on the block, not the first
maybe_run_background_task_last(s) ==
    IF s.tasks_queue.triggers = {} THEN Ret(s, OpQuery("PollRequest"))
    ELSE
    LET block_id == next_trigger(s.tasks_queue, s.schema, s.bg_task.current_offset)
        tasks == TasksOf(s.tasks_queue, block_id)
        q0 == [s.tasks_queue EXCEPT !.triggers = @ \ {block_id}]
    IN  IF tasks = << >>
        THEN Panic(s, "empty task queue unexpected")
        ELSE Ret([s EXCEPT !.tasks_queue = SetTasks(q0, block_id, RemoveAt(tasks, Len(tasks))),
                           !.bg_task.state = "Await", !.bg_task.block_id = block_id],
                 OpInterpretTask(s.schema.blocks[block_id].offset, block_id,
                                 tasks[Len(tasks)]))

\* maybe_run_background_task looking for the next block from the start of the file
RECURSIVE maybe_run_background_task_rewound(_)
maybe_run_background_task_rewound(s) ==
    IF s.tasks_queue.triggers = {} THEN Ret(s, OpQuery("PollRequest"))
    ELSE
    LET block_id == next_trigger(s.tasks_queue, s.schema, 0)
        offset == s.schema.blocks[block_id].offset
        q0 == [s.tasks_queue EXCEPT !.triggers = @ \ {block_id}]
    IN  IF TasksOf(q0, block_id) = << >>
        THEN Panic(s, "empty task queue unexpected")
        ELSE
        LET task_kind == Head(TasksOf(q0, block_id))
            s1 == [s EXCEPT !.tasks_queue = pop_task(q0, block_id)]
        IN  IF /\ task_kind.kind = "DeleteBlock"
               /\ task_kind.ctx_tag = "Defrag"
               /\ ~is_still_relevant(s1.schema, task_kind.defrag_gaps, block_id)
            THEN LET s2 == cancel_defrag_task(s1)
                     s3 == [s2 EXCEPT !.tasks_queue =
                               enqueue(finish(@, block_id), s2.schema, block_id)]
                 IN  IF s2.fault # "none" THEN Ret(s2, OpQuery("Panic"))
                     ELSE maybe_run_background_task_rewound(s3)
            ELSE Ret([s1 EXCEPT !.bg_task.state = "Await", !.bg_task.block_id = block_id],
                     OpInterpretTask(offset, block_id, task_kind))

\* maybe_run_background_task handing out a defrag delete whatever its gaps are now
maybe_run_background_task_unchecked(s) ==
    IF s.tasks_queue.triggers = {} THEN Ret(s, OpQuery("PollRequest"))
    ELSE
    LET block_id == next_trigger(s.tasks_queue, s.schema, s.bg_task.current_offset)
        q0 == [s.tasks_queue EXCEPT !.triggers = @ \ {block_id}]
    IN  IF TasksOf(q0, block_id) = << >>
        THEN Panic(s, "empty task queue unexpected")
        ELSE Ret([s EXCEPT !.tasks_queue = pop_task(q0, block_id),
                           !.bg_task.state = "Await", !.bg_task.block_id = block_id],
                 OpInterpretTask(s.schema.blocks[block_id].offset, block_id,
                                 Head(TasksOf(q0, block_id))))

\* Inner::maybe_run_background_task
RECURSIVE maybe_run_background_task(_)
maybe_run_background_task(s) ==
    IF s.tasks_queue.triggers = {} THEN Ret(s, OpQuery("PollRequest"))
    ELSE
    LET block_id == next_trigger(s.tasks_queue, s.schema, s.bg_task.current_offset)
        offset == s.schema.blocks[block_id].offset
        q0 == [s.tasks_queue EXCEPT !.triggers = @ \ {block_id}]
    IN  IF TasksOf(q0, block_id) = << >>
        THEN Panic(s, "empty task queue unexpected")
        ELSE
        LET task_kind == Head(TasksOf(q0, block_id))
            s1 == [s EXCEPT !.tasks_queue = pop_task(q0, block_id)]
        IN  IF /\ task_kind.kind = "DeleteBlock"
               /\ task_kind.ctx_tag = "Defrag"
               /\ ~is_still_relevant(s1.schema, task_kind.defrag_gaps, block_id)
            THEN LET s2 == cancel_defrag_task(s1)
                     s3 == [s2 EXCEPT !.tasks_queue =
                               enqueue(finish(@, block_id), s2.schema, block_id)]
                 IN  IF s2.fault # "none" THEN Ret(s2, OpQuery("Panic"))
                     ELSE maybe_run_background_task(s3)
            ELSE Ret([s1 EXCEPT !.bg_task.state = "Await", !.bg_task.block_id = block_id],
                     OpInterpretTask(offset, block_id, task_kind))

\* Inner::iter_blocks_stream_next
iter_blocks_stream_next(s, block_id_from, stream) ==
    LET block_id == next_block_id_from(s.schema, block_id_from)
    IN  IF block_id = NoId
        THEN Ret(s, OpEvent(Event("IterBlocksFinish", stream, "Finish", NoId, NoBytes, NoId)))
        ELSE IF process_read_block_request(s.schema, block_id) = "NotFound"
        THEN Panic(s, "unreachable: iterated block not found")
        ELSE IF lru_has(s.lru_cache, block_id)
        THEN Ret([s EXCEPT !.lru_cache = lru_get(@, block_id)],
                 OpEvent(Event("IterBlocksItem", stream, "Item", block_id,
                               lru_bytes(s.lru_cache, block_id), IdNext(block_id))))
        ELSE LET q1 == push_task(s.tasks_queue, block_id,
                                 Task("ReadBlock", "IterBlocks", stream, NoGaps, NoBytes,
                                      s.schema.blocks[block_id].size, IdNext(block_id)))
             IN  Ret([s EXCEPT !.tasks_queue = enqueue(q1, s.schema, block_id)], OpIdle)

\* proceed_read_block_task_done answering with the buffer lent to the task instead of
\* the bytes that were read
proceed_read_block_task_done_lent(s, block_id, block_bytes, task) ==
    IF task.ctx_tag = "External"
    THEN Ret(s, OpEvent(Event("ReadBlock", task.context, "Done", block_id,
                              task.block_bytes, NoId)))
    ELSE Ret(s, OpIdle)

\* Inner::proceed_read_block_task_done
proceed_read_block_task_done(s, block_id, block_bytes, task) ==
    CASE task.ctx_tag = "External" ->
           Ret(s, OpEvent(Event("ReadBlock", task.context, "Done", block_id, block_bytes, NoId)))
      [] task.ctx_tag = "Defrag" ->
           IF ~IsRegular(s.schema, block_id)
           THEN Panic(s, "unwrap: defrag read of a missing block")
           ELSE IF is_still_relevant(s.schema, task.defrag_gaps, block_id)
           THEN Ret([s EXCEPT !.tasks_queue =
                        push_task(@, block_id,
                                  Task("DeleteBlock", "Defrag", 0, task.defrag_gaps,
                                       block_bytes, block_bytes.len, NoId))],
                    OpIdle)
           ELSE LET s1 == cancel_defrag_task(s)
                IN  IF s1.fault # "none" THEN Ret(s1, OpQuery("Panic")) ELSE Ret(s1, OpIdle)
      [] OTHER ->
           Ret(s, OpEvent(Event("IterBlocksItem", task.context, "Item", block_id,
                                block_bytes, task.next_block_id)))

\* enqueue_defrag_reads that starts a move with the delete, without the read
RECURSIVE enqueue_defrag_deletes(_)
enqueue_defrag_deletes(s) ==
    IF \/ ~s.defrag.enabled
       \/ s.defrag.in_progress_tasks_count >= s.defrag.in_progress_tasks_limit
       \/ defrag_tasks_live(s.defrag, s.schema) = {}
    THEN s
    ELSE LET t == defrag_tasks_pop(s.defrag, s.schema)
             block_id == t.moving_block_id
             q1 == push_task(s.tasks_queue, block_id,
                             Task("DeleteBlock", "Defrag", 0, t.defrag_gaps, NoBytes,
                                  s.schema.blocks[block_id].size, NoId))
         IN  enqueue_defrag_deletes(
                 [s EXCEPT !.defrag.tasks = defrag_tasks_live(s.defrag, s.schema) \ {t},
                           !.defrag.in_progress_tasks_count = @ + 1,
                           !.tasks_queue = enqueue(q1, s.schema, block_id)])

\* Inner::incoming_poke, lines 535-562: the defrag reads are queued
RECURSIVE enqueue_defrag_reads(_)
enqueue_defrag_reads(s) ==
    IF \/ ~s.defrag.enabled
       \/ s.defrag.in_progress_tasks_count >= s.defrag.in_progress_tasks_limit
       \/ defrag_tasks_live(s.defrag, s.schema) = {}
    THEN s
    ELSE LET t == defrag_tasks_pop(s.defrag, s.schema)
             block_id == t.moving_block_id
             q1 == push_task(s.tasks_queue, block_id,
                             Task("ReadBlock", "Defrag", 0, t.defrag_gaps, NoBytes,
                                  s.schema.blocks[block_id].size, NoId))
         IN  enqueue_defrag_reads(
                 [s EXCEPT !.defrag.tasks = defrag_tasks_live(s.defrag, s.schema) \ {t},
                           !.defrag.in_progress_tasks_count = @ + 1,
                           !.tasks_queue = enqueue(q1, s.schema, block_id)])

\* poke_rest looking for the next task while the interpreter still has one
poke_rest_eager(s0) == maybe_run_background_task(enqueue_defrag_reads(s0))

\* poke_rest waiting for the clients only while the interpreter still has a task
poke_rest_clients_only(s0) ==
    LET s == enqueue_defrag_reads(s0)
    IN  IF /\ is_empty_tasks(s.tasks_queue)
           /\ (~s.defrag.enabled \/ s.defrag.in_progress_tasks_count = 0)
           /\ s.tasks_queue.flush # << >>
        THEN Ret([s EXCEPT !.tasks_queue = pop_flush(@)],
                 OpEvent(Event("Flush", Head(s.tasks_queue.flush), "Flushed",
                               NoId, NoBytes, NoId)))
        ELSE CASE s.bg_task.state = "Idle" -> maybe_run_background_task(s)
               [] s.bg_task.state = "InProgress" ->
                    Ret([s EXCEPT !.bg_task.state = "Await"], OpQuery("PollRequest"))
               [] OTHER -> Panic(s, "unreachable: poke in Await")

\* Inner::incoming_poke, lines 535-588: what follows the staged result
poke_rest(s0) ==
    LET s == enqueue_defrag_reads(s0)
    IN  IF /\ is_empty_tasks(s.tasks_queue)
           /\ (~s.defrag.enabled \/ s.defrag.in_progress_tasks_count = 0)
           /\ s.tasks_queue.flush # << >>
        THEN Ret([s EXCEPT !.tasks_queue = pop_flush(@)],
                 OpEvent(Event("Flush", Head(s.tasks_queue.flush), "Flushed",
                               NoId, NoBytes, NoId)))
        ELSE CASE s.bg_task.state = "Idle" -> maybe_run_background_task(s)
               [] s.bg_task.state = "InProgress" ->
                    Ret([s EXCEPT !.bg_task.state = "Await"],
                        OpQuery("PollRequestAndInterpreter"))
               [] OTHER -> Panic(s, "unreachable: poke in Await")

\* Inner::incoming_poke, lines 456-518: DoneTask::DeleteBlockRegular
RECURSIVE done_delete_block_regular(_, _)
done_delete_block_regular(s, d) ==
    LET id == d.block_id
        q == s.tasks_queue
    IN  IF FirstOfKind(q, id, "WriteBlock") # 0
        THEN LET task == peek_kind(q, id, "WriteBlock")
                 s1 == [s EXCEPT !.tasks_queue = pop_kind(q, id, "WriteBlock")]
                 s2 == cancel_defrag_task(s1)
             IN  IF task.ctx_tag = "External"
                 THEN Panic(s1, "unreachable: external write on a deleted block")
                 ELSE IF s2.fault # "none" THEN Ret(s2, OpQuery("Panic"))
                 ELSE done_delete_block_regular(s2, d)
        ELSE IF FirstOfKind(q, id, "ReadBlock") # 0
        THEN LET task == peek_kind(q, id, "ReadBlock")
                 s1 == [s EXCEPT !.tasks_queue = pop_kind(q, id, "ReadBlock")]
                 s2 == cancel_defrag_task(s1)
             IN  CASE task.ctx_tag = "External" ->
                        Ret([s1 EXCEPT !.done_task = d],
                            OpEvent(Event("ReadBlock", task.context, "NotFound",
                                          NoId, NoBytes, NoId)))
                   [] task.ctx_tag = "Defrag" ->
                        IF s2.fault # "none" THEN Ret(s2, OpQuery("Panic"))
                        ELSE done_delete_block_regular(s2, d)
                   [] OTHER ->
                        \* the staged result is not restored: the removed entry and
                        \* the tasks still queued on it are dropped
                        iter_blocks_stream_next(
                            [s1 EXCEPT !.tasks_queue = SetTasks(@, id, << >>)],
                            task.next_block_id, task.context)
        ELSE IF FirstOfKind(q, id, "DeleteBlock") # 0
        THEN LET task == peek_kind(q, id, "DeleteBlock")
                 s1 == [s EXCEPT !.tasks_queue = pop_kind(q, id, "DeleteBlock")]
                 s2 == cancel_defrag_task(s1)
             IN  IF task.ctx_tag = "External"
                 THEN Ret([s1 EXCEPT !.done_task = d],
                          OpEvent(Event("DeleteBlock", task.context, "NotFound",
                                        NoId, NoBytes, NoId)))
                 ELSE IF s2.fault # "none" THEN Ret(s2, OpQuery("Panic"))
                 ELSE done_delete_block_regular(s2, d)
        ELSE LET s1 == flush_defrag_pending_queue(s, d.freed_space_key)
             IN  IF s1.fault # "none" THEN Ret(s1, OpQuery("Panic")) ELSE poke_rest(s1)

\* incoming_poke giving up the staged result of the delete of a move without
\* answering the reads queued on the block
incoming_poke_unstaged(s) ==
    LET d == s.done_task
        s0 == [s EXCEPT !.done_task = DoneNone]
        q == s0.tasks_queue
        id == d.block_id
    IN  CASE d.tag = "None" -> poke_rest(s0)
          [] d.tag = "ReadBlock" ->
               IF FirstOfKind(q, id, "WriteBlock") # 0
               THEN Panic(s0, "assert: write task behind a read")
               ELSE IF FirstOfKind(q, id, "ReadBlock") # 0
               THEN proceed_read_block_task_done(
                        [s0 EXCEPT !.tasks_queue = pop_kind(q, id, "ReadBlock"),
                                   !.done_task = d],
                        id, d.block_bytes, peek_kind(q, id, "ReadBlock"))
               ELSE poke_rest([s0 EXCEPT !.tasks_queue = enqueue(q, s0.schema, id)])
          [] d.tag = "DeleteBlockRegular" -> done_delete_block_regular(s0, d)
          [] OTHER ->
               LET s1 == flush_defrag_pending_queue(
                             [s0 EXCEPT !.tasks_queue = enqueue(q, s0.schema, id)],
                             d.freed_space_key)
               IN  IF s1.fault # "none" THEN Ret(s1, OpQuery("Panic"))
                   ELSE poke_rest(s1)

\* Inner::incoming_poke
incoming_poke(s) ==
    LET d == s.done_task
        s0 == [s EXCEPT !.done_task = DoneNone]
        q == s0.tasks_queue
        id == d.block_id
    IN  CASE d.tag = "None" -> poke_rest(s0)
          [] d.tag = "ReadBlock" ->
               IF FirstOfKind(q, id, "WriteBlock") # 0
               THEN Panic(s0, "assert: write task behind a read")
               ELSE IF FirstOfKind(q, id, "ReadBlock") # 0
               THEN proceed_read_block_task_done(
                        [s0 EXCEPT !.tasks_queue = pop_kind(q, id, "ReadBlock"),
                                   !.done_task = d],
                        id, d.block_bytes, peek_kind(q, id, "ReadBlock"))
               ELSE poke_rest([s0 EXCEPT !.tasks_queue = enqueue(q, s0.schema, id)])
          [] d.tag = "DeleteBlockRegular" -> done_delete_block_regular(s0, d)
          [] OTHER ->
               IF FirstOfKind(q, id, "ReadBlock") # 0
               THEN proceed_read_block_task_done(
                        [s0 EXCEPT !.tasks_queue = pop_kind(q, id, "ReadBlock"),
                                   !.done_task = d],
                        id, d.block_bytes, peek_kind(q, id, "ReadBlock"))
               ELSE LET s1 == flush_defrag_pending_queue(
                                  [s0 EXCEPT !.tasks_queue = enqueue(q, s0.schema, id)],
                                  d.freed_space_key)
                    IN  IF s1.fault # "none" THEN Ret(s1, OpQuery("Panic"))
                        ELSE poke_rest(s1)

\* Inner::incoming_request_info
incoming_request_info(s, context) ==
    LET i == info(s.schema)
        pending == pending_bytes(s.defrag.pending)
        reply == IF s.defrag.enabled
                 THEN [i EXCEPT !.defrag_write_pending_bytes = pending,
                                !.bytes_free = @ - pending]
                 ELSE i
    IN  IF s.defrag.enabled /\ i.bytes_free < pending
        THEN Panic(s, "assert: bytes_free >= defrag_write_pending_bytes")
        ELSE Ret(s, OpEvent([Event("Info", context, "Success", NoId, NoBytes, NoId)
                                 EXCEPT !.info = reply]))

\* incoming_request_flush that queues the flush twice
incoming_request_flush_twice(s, context) ==
    Ret([s EXCEPT !.tasks_queue = push_flush(push_flush(@, context), context)], OpIdle)

\* Inner::incoming_request_flush
incoming_request_flush(s, context) ==
    Ret([s EXCEPT !.tasks_queue = push_flush(@, context)], OpIdle)

\* incoming_request_write_block answering Done as soon as the block is placed
incoming_request_write_block_early(s, block_bytes, context) ==
    LET w == process_write_block_request(s.schema, block_bytes.len, 0)
        s1 == [s EXCEPT !.schema = w.schema]
    IN  IF w.tag = "Perform"
        THEN Ret(incoming_request_write_block_perform(s1, context, block_bytes, w),
                 OpEvent(Event("WriteBlock", context, "Done", w.block_id, NoBytes, NoId)))
        ELSE Ret(s1, OpEvent(Event("WriteBlock", context, "NoSpaceLeft",
                                   NoId, NoBytes, NoId)))

\* Inner::incoming_request_write_block
incoming_request_write_block(s, block_bytes, context) ==
    LET defrag_pending_bytes ==
            IF s.defrag.enabled THEN pending_bytes(s.defrag.pending) ELSE 0
        w == process_write_block_request(s.schema, block_bytes.len, defrag_pending_bytes)
        s1 == [s EXCEPT !.schema = w.schema]
    IN  CASE w.tag = "Perform" ->
               Ret(incoming_request_write_block_perform(s1, context, block_bytes, w), OpIdle)
          [] w.tag = "QueuePendingDefrag" ->
               Ret(IF s1.defrag.enabled
                   THEN [s1 EXCEPT !.defrag.pending =
                            pending_push(@, context, block_bytes, w.space_required)]
                   ELSE s1,
                   OpIdle)
          [] OTHER ->
               Ret(s1, OpEvent(Event("WriteBlock", context, "NoSpaceLeft",
                                     NoId, NoBytes, NoId)))

\* incoming_request_read_block that goes to the file for a cached block as well
incoming_request_read_block_uncached(s, block_id, context) ==
    IF process_read_block_request(s.schema, block_id) = "Perform"
    THEN LET q1 == push_task(s.tasks_queue, block_id,
                             Task("ReadBlock", "External", context, NoGaps, NoBytes,
                                  s.schema.blocks[block_id].size, NoId))
         IN  Ret([s EXCEPT !.tasks_queue = enqueue(q1, s.schema, block_id)], OpIdle)
    ELSE Ret(s, OpEvent(Event("ReadBlock", context, "NotFound", NoId, NoBytes, NoId)))

\* Inner::incoming_request_read_block
incoming_request_read_block(s, block_id, context) ==
    IF process_read_block_request(s.schema, block_id) = "Perform"
    THEN IF lru_has(s.lru_cache, block_id)
         THEN Ret([s EXCEPT !.lru_cache = lru_get(@, block_id)],
                  OpEvent(Event("ReadBlock", context, "Done", block_id,
                                lru_bytes(s.lru_cache, block_id), NoId)))
         ELSE LET q1 == push_task(s.tasks_queue, block_id,
                                  Task("ReadBlock", "External", context, NoGaps, NoBytes,
                                       s.schema.blocks[block_id].size, NoId))
              IN  Ret([s EXCEPT !.tasks_queue = enqueue(q1, s.schema, block_id)], OpIdle)
    ELSE Ret(s, OpEvent(Event("ReadBlock", context, "NotFound", NoId, NoBytes, NoId)))

\* incoming_request_delete_block without the lookup of the block in the schema
incoming_request_delete_block_unchecked(s, block_id, context) ==
    LET q1 == push_task(s.tasks_queue, block_id,
                        Task("DeleteBlock", "External", context, NoGaps, NoBytes, 0, NoId))
    IN  Ret([s EXCEPT !.tasks_queue = enqueue(q1, s.schema, block_id)], OpIdle)

\* incoming_request_delete_block with the task put before the tasks of the block
incoming_request_delete_block_first(s, block_id, context) ==
    IF process_delete_block_request(s.schema, block_id) = "Perform"
    THEN LET task == Task("DeleteBlock", "External", context, NoGaps, NoBytes, 0, NoId)
             q1 == SetTasks(s.tasks_queue, block_id,
                            <<task>> \o TasksOf(s.tasks_queue, block_id))
         IN  Ret([s EXCEPT !.tasks_queue = enqueue(q1, s.schema, block_id)], OpIdle)
    ELSE Ret(s, OpEvent(Event("DeleteBlock", context, "NotFound", NoId, NoBytes, NoId)))

\* Inner::incoming_request_delete_block
incoming_request_delete_block(s, block_id, context) ==
    IF process_delete_block_request(s.schema, block_id) = "Perform"
    THEN LET q1 == push_task(s.tasks_queue, block_id,
                             Task("DeleteBlock", "External", context, NoGaps, NoBytes, 0, NoId))
         IN  Ret([s EXCEPT !.tasks_queue = enqueue(q1, s.schema, block_id)], OpIdle)
    ELSE Ret(s, OpEvent(Event("DeleteBlock", context, "NotFound", NoId, NoBytes, NoId)))

\* Inner::incoming_request_iter_blocks
incoming_request_iter_blocks(s, context) ==
    Ret(s, Op("MakeIterBlocksStream",
              Event("IterBlocks", context, "MakeStream", NoId, NoBytes, NoId),
              0, NoId, NoTask))

\* Inner::iter_blocks_stream_ready
iter_blocks_stream_ready(s, stream) == iter_blocks_stream_next(s, IdInit, stream)

\* Inner::incoming_interpreter; done is [current_offset, block_id, task, block_bytes]
incoming_interpreter(s, done) ==
    LET block_id == done.block_id
        s0 == [s EXCEPT !.bg_task = BgIdle(done.current_offset),
                        !.tasks_queue = finish(@, block_id)]
    IN  CASE done.task.kind = "WriteBlock" ->
               LET s1 == [s0 EXCEPT !.tasks_queue = enqueue(@, s0.schema, block_id)]
               IN  IF done.task.ctx_tag = "External"
                   THEN Ret(s1, OpEvent(Event("WriteBlock", done.task.context, "Done",
                                              block_id, NoBytes, NoId)))
                   ELSE LET s2 == cancel_defrag_task(s1)
                        IN  IF s2.fault # "none" THEN Ret(s2, OpQuery("Panic"))
                            ELSE Ret(s2, OpIdle)
          [] done.task.kind = "ReadBlock" ->
               proceed_read_block_task_done(
                   [s0 EXCEPT !.lru_cache = lru_insert(@, block_id, done.block_bytes),
                              !.done_task = DoneTask("ReadBlock", block_id,
                                                     done.block_bytes, NoKey)],
                   block_id, done.block_bytes, done.task)
          [] OTHER ->
               IF ~IsRegular(s0.schema, block_id)
               THEN Panic(s0, "delete done for a missing block")
               ELSE IF done.task.ctx_tag = "External"
               THEN LET r == process_delete_block_task_done(s0.schema, block_id)
                    IN  Ret([s0 EXCEPT !.lru_cache = lru_invalidate(@, block_id),
                                       !.schema = r.schema,
                                       !.defrag = defrag_tasks_push(@, r.defrag_op),
                                       !.done_task = DoneTask("DeleteBlockRegular", block_id,
                                                              NoBytes, r.freed_space_key)],
                            OpEvent(Event("DeleteBlock", done.task.context, "Done",
                                          block_id, NoBytes, NoId)))
               ELSE LET r == process_delete_block_task_done_defrag(s0.schema, block_id)
                    IN  Ret([s0 EXCEPT !.schema = r.schema,
                                       !.defrag = defrag_tasks_push(@, r.defrag_op),
                                       !.tasks_queue =
                                           push_task(@, block_id,
                                                     Task("WriteBlock", "Defrag", 0, NoGaps,
                                                          done.task.block_bytes,
                                                          done.task.block_bytes.len, NoId)),
                                       !.done_task = DoneTask("DeleteBlockDefrag", block_id,
                                                              done.task.block_bytes,
                                                              r.freed_space_key)],
                            OpIdle)

(***************************************************************************)
(* The interpreter (wheel/interpret/fixed_file.rs) and the wheel file.     *)
(*   disk : the intact block frames of the file, [offset, id, size, bytes] *)
(***************************************************************************)
\* storage::TombstoneTag, serialized
tombstone_tag_size == commit_tag_size

\* block::crc of a payload, a checksum of a few bits
block_crc(bytes) == (5 * bytes.len + 3 * bytes.tag) % CrcModulus

\* storage::CommitTag: the id of the block and the crc of its payload
CommitTag(block_id, crc) == [block_id |-> block_id, crc |-> crc]

\* a block frame of the file: the header (id, size), the payload, the commit tag
Frame(offset, id, bytes) ==
    [offset |-> offset, id |-> id, size |-> bytes.len, bytes |-> bytes,
     commit |-> CommitTag(id, block_crc(bytes))]

\* the frames that a write of [from, to) damages
Overwritten(d, from, to) ==
    {f \in d : f.offset < to /\ f.offset + data_size_block_min + f.size > from}

\* interpret with a DeleteBlock that leaves the file as it is
interpret_untombstoned(d, rq) ==
    CASE rq.task.kind = "WriteBlock" ->
           LET to == rq.offset + data_size_block_min + rq.task.block_bytes.len
           IN  [disk |-> (d \ Overwritten(d, rq.offset, to))
                             \cup {Frame(rq.offset, rq.block_id, rq.task.block_bytes)},
                current_offset |-> to, block_bytes |-> NoBytes, error |-> FALSE]
      [] rq.task.kind = "ReadBlock" ->
           LET fs == {f \in d : /\ f.offset = rq.offset
                                /\ f.id = rq.block_id
                                /\ f.size = rq.task.block_size}
               to == rq.offset + data_size_block_min + rq.task.block_size
           IN  IF fs = {}
               THEN [disk |-> d, current_offset |-> to, block_bytes |-> NoBytes,
                     error |-> TRUE]
               ELSE [disk |-> d, current_offset |-> to,
                     block_bytes |-> (CHOOSE f \in fs : TRUE).bytes, error |-> FALSE]
      [] OTHER ->
           [disk |-> d, current_offset |-> rq.offset + tombstone_tag_size,
            block_bytes |-> NoBytes, error |-> FALSE]

\* busyloop, Command::Request: seek to the offset, then the task
\* rq is [offset, block_id, task]
interpret(d, rq) ==
    CASE rq.task.kind = "WriteBlock" ->
           LET to == rq.offset + data_size_block_min + rq.task.block_bytes.len
           IN  [disk |-> (d \ Overwritten(d, rq.offset, to))
                             \cup {Frame(rq.offset, rq.block_id, rq.task.block_bytes)},
                current_offset |-> to, block_bytes |-> NoBytes, error |-> FALSE]
      [] rq.task.kind = "ReadBlock" ->
           LET fs == {f \in d : /\ f.offset = rq.offset
                                /\ f.id = rq.block_id
                                /\ f.size = rq.task.block_size}
               to == rq.offset + data_size_block_min + rq.task.block_size
           IN  IF fs = {}
               THEN [disk |-> d, current_offset |-> to, block_bytes |-> NoBytes,
                     error |-> TRUE]
               ELSE [disk |-> d, current_offset |-> to,
                     block_bytes |-> (CHOOSE f \in fs : TRUE).bytes, error |-> FALSE]
      [] OTHER ->
           LET to == rq.offset + tombstone_tag_size
           IN  [disk |-> d \ Overwritten(d, rq.offset, to),
                current_offset |-> to, block_bytes |-> NoBytes, error |-> FALSE]

InterpIdle == [busy |-> FALSE, offset |-> 0, block_id |-> NoId, task |-> NoTask]

(***************************************************************************)
(* The state: the performer (Inner), the Op it returned last, the          *)
(* interpreter and the file, and what the clients have asked and heard.    *)
(*   open     : the requests taken and not answered yet                    *)
(*   last_req : the request taken last, last_write : the context of the    *)
(*              write taken last                                           *)
(*   deleted  : the blocks DeleteBlock Done was emitted for                *)
(*   written  : block id -> the bytes of the write answered Done{id}       *)
(*   served   : per block and kind of request, the latest submitted        *)
(*              request that has been answered                             *)
(*   held     : the writes that have been in the pending queue             *)
(*   relocated: the blocks the defragmentation has written anew            *)
(*   freed    : [key, size], the gap that the latest DeleteBlock Done has   *)
(*              left and the size of the deleted block, while that gap is  *)
(*              in the gap index; NoKey otherwise                          *)
(*   iterated : stream context -> [items, first, live, finished]: the ids  *)
(*              of the items emitted to the stream, the blocks that were   *)
(*              in the index when the IterBlocks was taken, those of them  *)
(*              that have been there ever since, how many times            *)
(*              IterBlocksFinish was emitted                               *)
(*   moves    : block id of the index -> the kind of the defrag task       *)
(*              handed to the interpreter last for the block               *)
(*   dropped  : the blocks of the index whose queued defrag delete the     *)
(*              latest step of the performer has taken off the queue       *)
(*              without handing it to the interpreter                      *)
(*   opened   : [status, pushed], how GenServer::open of an existing file  *)
(*              has ended and the blocks it has pushed to the builder, in  *)
(*              the order of the scan; status None for a wheel created     *)
(***************************************************************************)
VARIABLES schema, lru_cache, defrag, bg_task, tasks_queue, done_task, fault,
          op, interp, disk, streams, budget, issued, last_req, last_write,
          open, deleted, written, served, held, relocated, freed, iterated, moves,
          dropped, opened

vars == <<schema, lru_cache, defrag, bg_task, tasks_queue, done_task, fault,
          op, interp, disk, streams, budget, issued, last_req, last_write,
          open, deleted, written, served, held, relocated, freed, iterated, moves,
          dropped, opened>>

Inner ==
    [schema |-> schema, lru_cache |-> lru_cache, defrag |-> defrag, bg_task |-> bg_task,
     tasks_queue |-> tasks_queue, done_task |-> done_task, fault |-> fault]

\* what the clients may still submit
Budget(writes, reads, deletes, flushes, iters, total) ==
    [writes |-> writes, reads |-> reads, deletes |-> deletes, flushes |-> flushes,
     iters |-> iters, total |-> total, lens |-> 1..MaxBlockSize]

\* a request with its reply channel
Request(context, kind, block_id, block_bytes) ==
    [context |-> context, kind |-> kind, block_id |-> block_id, block_bytes |-> block_bytes]

NoRequest == Request(0, "None", NoId, NoBytes)

\* no existing file was opened
NotOpened == [status |-> "None", pushed |-> << >>]

\* Inner::new for a wheel of so many bytes, with the file as it is found
InitFile(size_bytes_total, enabled, requests, file) ==
    /\ schema = initialize_empty(size_bytes_total)
    /\ lru_cache = << >>
    /\ defrag = DefragNew(enabled)
    /\ bg_task = BgIdle(0)
    /\ tasks_queue = QueueNew
    /\ done_task = DoneNone
    /\ fault = "none"
    /\ op = OpIdle
    /\ interp = InterpIdle
    /\ disk = file
    /\ streams = {}
    /\ budget = requests
    /\ issued = 0
    /\ last_req = NoRequest
    /\ last_write = 0
    /\ open = {}
    /\ deleted = {}
    /\ written = << >>
    /\ served = {}
    /\ held = {}
    /\ relocated = {}
    /\ freed = [key |-> NoKey, size |-> 0]
    /\ iterated = << >>
    /\ moves = << >>
    /\ dropped = {}
    /\ opened = NotOpened

\* wheel_create: an empty wheel of so many bytes, then Inner::new
InitSized(size_bytes_total, enabled, requests) ==
    InitFile(size_bytes_total, enabled, requests, {})

\* wheel_create: an empty wheel of WheelSize bytes
InitWith(enabled, requests) == InitSized(WheelSize, enabled, requests)

\* the requests of the clients: so many of each kind, MaxRequests in all; an Info
\* changes nothing and is not counted
Requests == Budget(MaxWrites, MaxReads, MaxDeletes, MaxFlushes, MaxIters, MaxRequests)

\* Params::disable_defragmentation is either way
Init == \E enabled \in BOOLEAN : InitWith(enabled, Requests)

\* the latest submitted request of a kind answered on a block
Serve(sv, block_id, kind, context) ==
    LET same == {x \in sv : x.block_id = block_id /\ x.kind = kind}
    IN  (sv \ same) \cup {[block_id |-> block_id, kind |-> kind,
                           context |-> Max({context} \cup {x.context : x \in same})]}

\* the deletes of the defragmentation that are queued on the block
DefragDeletes(q, id) ==
    {i \in 1..Len(TasksOf(q, id)) : /\ TasksOf(q, id)[i].kind = "DeleteBlock"
                                    /\ TasksOf(q, id)[i].ctx_tag = "Defrag"}

\* the performer and the Op a handler returned are stored; an Event is delivered
\* to the client that waits for it
Apply(ret, open_streams, taken) ==
    LET event == ret.op.event
        emitted == ret.op.tag = "Event"
        all == open \cup taken
        answered == IF emitted /\ event.kind # "IterBlocksItem"
                    THEN {o \in all : o.context = event.context}
                    ELSE {}
        on_block == {o \in answered : /\ o.kind \in {"WriteBlock", "ReadBlock", "DeleteBlock"}
                                      /\ ~(o.kind = "WriteBlock" /\ event.op # "Done")}
    IN  /\ schema' = ret.inner.schema
        /\ lru_cache' = ret.inner.lru_cache
        /\ defrag' = ret.inner.defrag
        /\ bg_task' = ret.inner.bg_task
        /\ tasks_queue' = ret.inner.tasks_queue
        /\ done_task' = ret.inner.done_task
        /\ fault' = ret.inner.fault
        /\ op' = ret.op
        /\ streams' = IF emitted /\ event.kind = "IterBlocksItem"
                      THEN open_streams \cup {[context |-> event.context,
                                               cursor |-> event.cursor]}
                      ELSE open_streams
        /\ open' = all \ answered
        /\ deleted' = IF emitted /\ event.kind = "DeleteBlock" /\ event.op = "Done"
                      THEN deleted \cup {event.block_id} ELSE deleted
        /\ written' = IF emitted /\ event.kind = "WriteBlock" /\ event.op = "Done"
                      THEN [id \in DOMAIN written \cup {event.block_id} |->
                               IF id # event.block_id THEN written[id]
                               ELSE IF answered = {} THEN NoBytes
                               ELSE (CHOOSE o \in answered : TRUE).block_bytes]
                      ELSE written
        /\ served' = IF on_block = {} THEN served
                     ELSE LET o == CHOOSE o \in on_block : TRUE
                          IN  Serve(served,
                                    IF o.kind = "WriteBlock" THEN event.block_id ELSE o.block_id,
                                    o.kind, o.context)
        /\ held' = held \cup {ret.inner.defrag.pending[i].context :
                                   i \in 1..Len(ret.inner.defrag.pending)}
        /\ freed' = IF emitted /\ event.kind = "DeleteBlock" /\ event.op = "Done"
                    THEN [key |-> ret.inner.done_task.freed_space_key,
                          size |-> schema.blocks[event.block_id].size]
                    ELSE IF \E g \in ret.inner.schema.gaps : SpaceKeyOf(g) = freed.key
                    THEN freed
                    ELSE [key |-> NoKey, size |-> 0]
        /\ iterated' =
              LET started == IF ret.op.tag = "MakeIterBlocksStream"
                             THEN (event.context :>
                                       [items |-> << >>, first |-> DOMAIN schema.blocks,
                                        live |-> DOMAIN schema.blocks,
                                        finished |-> 0]) @@ iterated
                             ELSE iterated
              IN  [c \in DOMAIN started |->
                      LET it == started[c]
                          mine == emitted /\ event.context = c
                      IN  [items |-> IF mine /\ event.kind = "IterBlocksItem"
                                     THEN Append(it.items, event.block_id) ELSE it.items,
                           first |-> it.first,
                           live |-> IF it.finished > 0 THEN it.live
                                    ELSE it.live \cap DOMAIN ret.inner.schema.blocks,
                           finished |-> IF mine /\ event.kind = "IterBlocksFinish"
                                        THEN it.finished + 1 ELSE it.finished]]
        /\ moves' =
              LET handed == IF ret.op.tag = "InterpretTask" /\ ret.op.task.ctx_tag = "Defrag"
                            THEN (ret.op.block_id :> ret.op.task.kind) @@ moves
                            ELSE moves
              IN  [id \in DOMAIN handed \cap DOMAIN ret.inner.schema.blocks |-> handed[id]]
        /\ dropped' =
              {id \in DOMAIN ret.inner.schema.blocks :
                  /\ DefragDeletes(tasks_queue, id) # {}
                  /\ DefragDeletes(ret.inner.tasks_queue, id) = {}
                  /\ ~(/\ ret.op.tag = "InterpretTask"
                       /\ ret.op.block_id = id
                       /\ ret.op.task.kind = "DeleteBlock"
                       /\ ret.op.task.ctx_tag = "Defrag")}
        /\ opened' = opened

Polling == op.tag \in {"PollRequest", "PollRequestAndInterpreter"}

\* the clients submit a request
Submitting ==
    /\ Polling
    /\ budget.total > 0
    /\ Cardinality(open) < MaxOutstanding

\* the blocks the clients have heard of
Known == DOMAIN schema.blocks \cup DOMAIN written

\* PollRequestNext / PollRequestAndInterpreterNext: Await becomes InProgress
Polled ==
    IF op.tag = "PollRequestAndInterpreter"
    THEN [Inner EXCEPT !.bg_task.state = "InProgress"]
    ELSE Inner

\* Performer::next
PerformerNext ==
    /\ op.tag \in {"Idle", "Event"}
    /\ Apply(incoming_poke(Inner), streams, {})
    /\ UNCHANGED <<interp, disk, budget, issued, last_req, last_write, relocated>>

\* InterpretTaskNext::task_accepted: the task is at the interpreter
TaskAccepted ==
    /\ op.tag = "InterpretTask"
    /\ interp' = [busy |-> TRUE, offset |-> op.offset, block_id |-> op.block_id,
                  task |-> op.task]
    /\ bg_task' = [bg_task EXCEPT !.state = "InProgress"]
    /\ op' = OpIdle
    /\ UNCHANGED <<schema, lru_cache, defrag, tasks_queue, done_task, fault, disk,
                   streams, budget, issued, last_req, last_write, open, deleted,
                   written, served, held, relocated, freed, iterated, moves,
                   dropped, opened>>

\* the request is handed to the performer;
\* ret is what the handler returns for the context
Take(kind, block_id, block_bytes, ret) ==
    LET request == Request(issued + 1, kind, block_id, block_bytes)
    IN  /\ issued' = issued + 1
        /\ last_req' = request
        /\ last_write' = IF kind = "WriteBlock" THEN issued + 1 ELSE last_write
        /\ Apply(ret, streams, {request})
        /\ UNCHANGED <<interp, disk, relocated>>

\* incoming_request, Request::WriteBlock
RequestWriteBlock ==
    /\ Submitting
    /\ budget.writes > 0
    /\ \E len \in budget.lens :
          LET block_bytes == [len |-> len, tag |-> issued + 1]
          IN  Take("WriteBlock", NoId, block_bytes,
                   incoming_request_write_block(Polled, block_bytes, issued + 1))
    /\ budget' = [budget EXCEPT !.writes = @ - 1, !.total = @ - 1]

\* incoming_request, Request::ReadBlock
RequestReadBlock ==
    /\ Submitting
    /\ budget.reads > 0
    /\ \E block_id \in Known \ {schema.eof.id} :
          Take("ReadBlock", block_id, NoBytes,
               incoming_request_read_block(Polled, block_id, issued + 1))
    /\ budget' = [budget EXCEPT !.reads = @ - 1, !.total = @ - 1]

\* incoming_request, Request::DeleteBlock
RequestDeleteBlock ==
    /\ Submitting
    /\ budget.deletes > 0
    /\ \E block_id \in Known \ {schema.eof.id} :
          Take("DeleteBlock", block_id, NoBytes,
               incoming_request_delete_block(Polled, block_id, issued + 1))
    /\ budget' = [budget EXCEPT !.deletes = @ - 1, !.total = @ - 1]

\* incoming_request, Request::Flush
RequestFlush ==
    /\ Submitting
    /\ budget.flushes > 0
    /\ Take("Flush", NoId, NoBytes, incoming_request_flush(Polled, issued + 1))
    /\ budget' = [budget EXCEPT !.flushes = @ - 1, !.total = @ - 1]

\* incoming_request, Request::IterBlocks
RequestIterBlocks ==
    /\ Submitting
    /\ budget.iters > 0
    /\ Take("IterBlocks", NoId, NoBytes, incoming_request_iter_blocks(Polled, issued + 1))
    /\ budget' = [budget EXCEPT !.iters = @ - 1, !.total = @ - 1]

\* incoming_request, Request::Info: answered in the step that takes it; the
\* reply channel of an Info is of a type of its own
RequestInfo ==
    /\ Polling
    /\ Apply(incoming_request_info(Polled, 0), streams, {})
    /\ UNCHANGED <<interp, disk, budget, issued, last_req, last_write, relocated>>

\* MakeIterBlocksStreamNext::stream_ready
StreamReady ==
    /\ op.tag = "MakeIterBlocksStream"
    /\ Apply(iter_blocks_stream_ready(Inner, op.event.context), streams, {})
    /\ UNCHANGED <<interp, disk, budget, issued, last_req, last_write, relocated>>

\* PollRequestNext / PollRequestAndInterpreterNext::incoming_iter_blocks
IncomingIterBlocks ==
    /\ Polling
    /\ \E st \in streams :
          Apply(iter_blocks_stream_next(Polled, st.cursor, st.context), streams \ {st}, {})
    /\ UNCHANGED <<interp, disk, budget, issued, last_req, last_write, relocated>>

\* PollRequestAndInterpreterNext::incoming_task_done: the interpreter has performed
\* the task on the file and stays where the task has left it in the file; a
\* corrupted frame is a fatal error of the interpreter
IncomingTaskDone ==
    /\ op.tag = "PollRequestAndInterpreter"
    /\ interp.busy
    /\ LET r == interpret(disk, interp)
           done == [current_offset |-> r.current_offset, block_id |-> interp.block_id,
                    task |-> interp.task, block_bytes |-> r.block_bytes]
       IN  /\ disk' = r.disk
           /\ IF r.error
              THEN Apply(Panic(Inner, "interpreter: corrupted data"), streams, {})
              ELSE Apply(incoming_interpreter(Inner, done), streams, {})
    /\ interp' = [InterpIdle EXCEPT !.offset = interpret(disk, interp).current_offset]
    /\ relocated' = IF interp.task.kind = "WriteBlock" /\ interp.task.ctx_tag = "Defrag"
                    THEN relocated \cup {interp.block_id} ELSE relocated
    /\ UNCHANGED <<budget, issued, last_req, last_write>>

Next ==
    \/ PerformerNext
    \/ TaskAccepted
    \/ RequestWriteBlock
    \/ RequestReadBlock
    \/ RequestDeleteBlock
    \/ RequestFlush
    \/ RequestIterBlocks
    \/ RequestInfo
    \/ StreamReady
    \/ IncomingIterBlocks
    \/ IncomingTaskDone

Spec == Init /\ [][Next]_vars

\* the machine with the defragmentation enabled, and with it disabled
InitDefrag == InitWith(TRUE, [Requests EXCEPT !.total = MaxRequestsDefrag])

SpecDefrag == InitDefrag /\ [][Next]_vars

InitNoDefrag == InitWith(FALSE, Requests)

SpecNoDefrag == InitNoDefrag /\ [][Next]_vars

\* the machine with the defragmentation enabled and the gaps filled up by writes
InitInfo ==
    InitWith(TRUE, Budget(MaxWritesInfo, 1, 1, 1, 1, MaxRequestsInfo))

SpecInfo == InitInfo /\ [][Next]_vars

\* the machine with two iterations and two flushes, the defragmentation either way
InitIter ==
    \E enabled \in BOOLEAN :
        InitWith(enabled,
                 Budget(MaxWritesIter, 1, 1, MaxFlushesBoth, MaxItersBoth, MaxRequests))

SpecIter == InitIter /\ [][Next]_vars

\* what the driver and the interpreter have to do: step the performer that has
\* returned Idle or an event, make the stream asked for, complete the task at the
\* interpreter, serve a stream that waits
PerformerGoes == op.tag \in {"Idle", "Event"}

StreamGoes == op.tag = "MakeIterBlocksStream"

InterpreterGoes == op.tag = "PollRequestAndInterpreter" /\ interp.busy

IterGoes == Polling /\ streams # {}

\* the steps that do it: the performer is stepped, the stream is made, the task is
\* completed, a stream is served (and no request is taken in the step)
PerformerGone == PerformerGoes /\ op' # op

StreamGone == StreamGoes /\ op' # op

InterpreterGone == InterpreterGoes /\ ~interp'.busy

IterGone ==
    /\ IterGoes
    /\ interp' = interp
    /\ issued' = issued
    /\ ~(op'.tag = "Event" /\ op'.event.kind = "Info")

\* the machine where the driver and the interpreter go on (wheel::busyloop steps
\* the performer in a loop and polls its sources in turn): a task handed out is
\* accepted; the performer is stepped and a stream is made whenever that is to be
\* done; a task at the interpreter is completed and a waiting stream is served
\* however many requests come in between
InitLive ==
    InitWith(TRUE, Budget(MaxWritesIter, 1, MaxDeletes, MaxFlushes, MaxIters,
                          MaxRequestsDefrag))

SpecLive ==
    /\ InitLive
    /\ [][Next]_vars
    /\ WF_vars(TaskAccepted)
    /\ ([]<>~PerformerGoes \/ []<><<PerformerGone>>_vars)
    /\ ([]<>~StreamGoes \/ []<><<StreamGone>>_vars)
    /\ (<>[]~InterpreterGoes \/ []<><<InterpreterGone>>_vars)
    /\ (<>[]~IterGoes \/ []<><<IterGone>>_vars)

\* the machine of the test of the schema: a wheel of 128 bytes and writes of
\* "hello, world!", the defragmentation either way
InitSample ==
    \E enabled \in BOOLEAN :
        InitSized(init_size_bytes_total, enabled,
                  [Requests EXCEPT !.lens = {sample_hello_world_len}])

SpecSample == InitSample /\ [][Next]_vars

\* the machine with the defragmentation enabled, a wheel that holds three blocks and
\* writes of MaxBlockSize bytes, so that a read of one block puts another out of the
\* cache
InitMove ==
    InitSized(WheelSizeMove, TRUE,
              [Budget(MaxWritesMove, MaxReads, MaxDeletes, MaxFlushes, MaxIters,
                      MaxRequestsDefrag) EXCEPT !.lens = {MaxBlockSize}])

SpecMove == InitMove /\ [][Next]_vars

\* the machine with the defragmentation enabled where a write is held for space
\* while blocks are deleted and iterated: the clients submit three writes, two
\* deletes and an iteration, or four writes and two deletes, or else a write, a read
\* and a flush
InitHeld ==
    \E requests \in {Budget(MaxWritesMove, 0, MaxDeletes, 0, MaxIters, MaxRequestsDefrag),
                      Budget(MaxWrites, 0, MaxDeletes, 0, 0, MaxRequestsDefrag),
                      Budget(1, 1, 0, 1, 0, 3)} :
        InitWith(TRUE, requests)

SpecHeld == InitHeld /\ [][Next]_vars

(***************************************************************************)
(* Requests, replies and tasks, for the properties below.                  *)
(***************************************************************************)
IsTaskOf(task, context) == task.ctx_tag = "External" /\ task.context = context

\* the request has a task in the queue, on its way to the interpreter or there
HasTask(context) ==
    \/ \E id \in DOMAIN tasks_queue.tasks :
          \E i \in 1..Len(tasks_queue.tasks[id]) : IsTaskOf(tasks_queue.tasks[id][i], context)
    \/ op.tag = "InterpretTask" /\ IsTaskOf(op.task, context)
    \/ interp.busy /\ IsTaskOf(interp.task, context)

\* the step takes a request of the kind
Submitted(kind) == issued' = issued + 1 /\ last_req'.kind = kind

\* the step emits the reply to a request of the kind
Replied(kind) == op'.tag = "Event" /\ op'.event.kind = kind

\* the step answers the request it takes
AnsweredAtOnce(what) ==
    /\ Replied(last_req'.kind)
    /\ op'.event.op = what
    /\ op'.event.context = issued'

\* the request that the step takes
Taken == IF issued' = issued + 1 THEN {last_req'} ELSE {}

\* the request that the step answers: one that was open, or the one it takes
RepliedRequests ==
    {o \in open \cup Taken : o.context = op'.event.context /\ o \notin open'}

\* the block of the request that the step answers
RepliedBlock(o) == IF o.kind = "WriteBlock" THEN op'.event.block_id ELSE o.block_id

\* the reply that the state shows
Shows(kind, what) == op.tag = "Event" /\ op.event.kind = kind /\ op.event.op = what

\* C1: once DeleteBlock Done has been emitted for a block, a ReadBlock or DeleteBlock
\* of that block is answered NotFound by the step that takes it, no task is made
\* for it and it is left to no later reply
C1_DeletedIsNotFound ==
    [][\A kind \in {"ReadBlock", "DeleteBlock"} :
           (Submitted(kind) /\ last_req'.block_id \in deleted)
           => /\ AnsweredAtOnce("NotFound")
              /\ tasks_queue' = tasks_queue
              /\ last_req' \notin open']_vars

\* a read of a block that was moved by the defragmentation and then deleted is
\* answered NotFound
C1_Witness ==
    /\ Shows("ReadBlock", "NotFound")
    /\ op.event.context = last_req.context
    /\ last_req.block_id \in deleted \cap relocated

\* C2: a ReadBlock answered Done for a block whose write was answered Done{id}
\* carries the bytes of that write
C2_RoundTrip ==
    (Shows("ReadBlock", "Done") /\ op.event.block_id \in DOMAIN written)
    => op.event.block_bytes = written[op.event.block_id]

\* a block that the defragmentation has moved is read and the read is answered Done
C2_Witness ==
    /\ Shows("ReadBlock", "Done")
    /\ op.event.block_id \in relocated
    /\ op.event.block_id \in DOMAIN written

\* C3: when Flushed is emitted for a Flush, no WriteBlock, ReadBlock or DeleteBlock
\* submitted before that Flush is still without its reply
C3_FlushAfterEarlierRequests ==
    Shows("Flush", "Flushed") =>
        \A o \in open :
            o.kind \in {"WriteBlock", "ReadBlock", "DeleteBlock"}
            => o.context > op.event.context

\* C4 as stated: a request is answered before every request on the same block that
\* was submitted after it
C4_SubmissionOrder ==
    [][\A kind \in {"WriteBlock", "ReadBlock", "DeleteBlock"} :
           Replied(kind) =>
               \A o \in RepliedRequests : \A x \in served :
                   x.block_id = RepliedBlock(o) => x.context < o.context]_vars

\* C4 amended: a request is answered before every request on the same block that
\* was submitted after it, unless it is a DeleteBlock and the later one a ReadBlock
C4_SubmissionOrderButReads ==
    [][\A kind \in {"WriteBlock", "ReadBlock", "DeleteBlock"} :
           Replied(kind) =>
               \A o \in RepliedRequests : \A x \in served :
                   ( /\ x.block_id = RepliedBlock(o)
                     /\ ~(o.kind = "DeleteBlock" /\ x.kind = "ReadBlock") )
                   => x.context < o.context]_vars

\* a delete is answered Done after a read of the same block submitted before it
C4_Witness ==
    /\ Shows("DeleteBlock", "Done")
    /\ \E x \in served :
          /\ x.block_id = op.event.block_id
          /\ x.kind = "ReadBlock"
          /\ x.context < op.event.context

\* C5: InterpretTask is returned only by a step that starts with the background
\* slot Idle and with no task at the interpreter
C5_OneTaskAtATime ==
    [][op'.tag = "InterpretTask" => (bg_task.state = "Idle" /\ ~interp.busy)]_vars

\* a second task is handed to the interpreter after the first was completed
C5_Witness == op.tag = "InterpretTask" /\ DOMAIN written # {}

\* C6: WriteBlock Done{id} is emitted only by the step that takes the interpreter's
\* completion of the write task of that request and block, the frame being in the
\* file, and only for a request that has not been answered
C6_WriteDoneAfterWrite ==
    [][(Replied("WriteBlock") /\ op'.event.op = "Done")
       => /\ op.tag = "PollRequestAndInterpreter"
          /\ interp.busy
          /\ interp.task.kind = "WriteBlock"
          /\ IsTaskOf(interp.task, op'.event.context)
          /\ interp.block_id = op'.event.block_id
          /\ \E o \in open :
                /\ o.context = op'.event.context
                /\ o.kind = "WriteBlock"
                /\ Frame(interp.offset, op'.event.block_id, o.block_bytes) \in disk']_vars

\* a write has been answered Done
C6_Witness == Shows("WriteBlock", "Done") /\ op.event.block_id \in DOMAIN written

SubmittedLen == last_req'.block_bytes.len

NoGapFits == \A g \in schema.gaps : g.space_available < SubmittedLen

QueuedPending ==
    \E i \in 1..Len(defrag'.pending) : defrag'.pending[i].context = issued'

\* C7: a WriteBlock is answered NoSpaceLeft exactly when no single gap fits it and
\* the pending bytes plus its size exceed the total of the gaps; when no gap fits
\* and the pending bytes plus its size fit the total, it is queued as pending
C7_NoSpaceLeftIff ==
    [][Submitted("WriteBlock") =>
          /\ AnsweredAtOnce("NoSpaceLeft") <=>
                 ( /\ NoGapFits
                   /\ pending_bytes(defrag.pending) + SubmittedLen
                          > space_total(schema.gaps) )
          /\ ( /\ NoGapFits
               /\ pending_bytes(defrag.pending) + SubmittedLen
                      <= space_total(schema.gaps) )
             => QueuedPending]_vars

WriteDone(context) == \E id \in DOMAIN written : written[id].tag = context

LaterWrite(context) == last_write > context

\* the driver has nothing to wait for but a request
AtRest == op.tag = "PollRequest" /\ streams = {}

\* C8: with the defragmentation enabled, when nothing is left to do but to wait for
\* a request, every write that was held in the pending queue has been answered
\* Done, unless another write was submitted after it
C8_HeldWriteIsDone ==
    AtRest => \A context \in held : WriteDone(context) \/ LaterWrite(context)

\* a write that was held in the pending queue has been answered Done with no
\* write submitted after it
C8_Witness == \E context \in held : WriteDone(context) /\ ~LaterWrite(context)

\* C9: with the defragmentation disabled, a WriteBlock that no single gap fits and
\* that the total of the gaps fits is answered NoSpaceLeft by the step that takes it
C9_NoSpaceLeftWhenDisabled ==
    [][(/\ Submitted("WriteBlock")
        /\ ~defrag.enabled
        /\ NoGapFits
        /\ SubmittedLen <= space_total(schema.gaps))
       => AnsweredAtOnce("NoSpaceLeft")]_vars

\* C10: a ReadBlock or DeleteBlock that has been taken and not answered has its task
\* in the queue or with the interpreter, and a reply to a ReadBlock or DeleteBlock
\* is to a request that has not been answered
C10_NoRequestLost ==
    [][/\ \A o \in open' :
              o.kind \in {"ReadBlock", "DeleteBlock"} => HasTask(o.context)'
       /\ \A kind \in {"ReadBlock", "DeleteBlock"} :
              Replied(kind) => \E o \in RepliedRequests : o.kind = kind]_vars

\* C11: the pending writes never exceed the free bytes of the schema, the assertion
\* of incoming_request_info never fails, and the Info reply shows bytes_free =
\* wheel_size_bytes - service_bytes_used - data_bytes_used - the pending bytes >= 0
C11_InfoBytesFree ==
    /\ fault # "assert: bytes_free >= defrag_write_pending_bytes"
    /\ defrag.enabled => pending_bytes(defrag.pending) <= info(schema).bytes_free
    /\ Shows("Info", "Success") =>
           /\ op.event.info.wheel_size_bytes = WheelSize
           /\ op.event.info.bytes_free =
                  op.event.info.wheel_size_bytes - op.event.info.service_bytes_used
                      - op.event.info.data_bytes_used
                      - op.event.info.defrag_write_pending_bytes
           /\ op.event.info.bytes_free >= 0

\* an Info is answered while a write is held in the pending queue
C11_Witness ==
    /\ Shows("Info", "Success")
    /\ op.event.info.defrag_write_pending_bytes > 0

\* the bytes between the end of block a and the entry on its right
Slack(a) ==
    EntryOffset(schema, RightNeighbor(schema, a)) - schema.blocks[a].offset
        - data_size_block_min - schema.blocks[a].size

\* the gaps recorded between block a and the entry on its right
GapsAfter(a) ==
    {g \in schema.gaps : g.left = a /\ g.right = RightNeighbor(schema, a)}

\* C12 as stated: the entry on the right of a live block starts where the block ends
C12_Adjacent == \A a \in DOMAIN schema.blocks : Slack(a) = 0

\* C12 amended: the entry on the right of a live block starts at or after the end
\* of the block; right at the end when it is the end-of-file entry; a gap recorded
\* between the two lies within the bytes between them, and with no gap recorded
\* fewer than data_size_block_min bytes lie between them
C12_NoOverlap ==
    \A a \in DOMAIN schema.blocks :
        /\ Slack(a) >= 0
        /\ RightNeighbor(schema, a) = schema.eof.id => Slack(a) = 0
        /\ \A g \in GapsAfter(a) : Slack(a) >= data_size_block_min + g.space_available
        /\ GapsAfter(a) = {} => Slack(a) < data_size_block_min

\* a block was placed in a gap before another block and left bytes behind it that
\* no gap records
C12_Witness ==
    \E a \in DOMAIN schema.blocks :
        /\ IsRegular(schema, RightNeighbor(schema, a))
        /\ Slack(a) > 0
        /\ GapsAfter(a) = {}

\* the bytes that the schema accounts for: the gaps, each with the room for the
\* frame of a block, the blocks with their frames, the header and the end-of-file tag
Accounted(sch) ==
    space_total(sch.gaps) + data_bytes_used(sch) + data_size_service_min
        + (Cardinality(sch.gaps) + Cardinality(DOMAIN sch.blocks)) * data_size_block_min

\* the blocks that the step places: the new ones and the ones moved
Placed ==
    {b \in DOMAIN schema'.blocks :
        b \notin DOMAIN schema.blocks \/ schema'.blocks[b] # schema.blocks[b]}

\* C13 as stated: the gaps, the frames and the sizes of the live blocks and the
\* service bytes add up to the size of the wheel
C13_Conservation ==
    space_total(schema.gaps) + data_bytes_used(schema) + data_size_service_min
        + Cardinality(DOMAIN schema.blocks) * data_size_block_min = WheelSize

\* C13 amended: with the room for a frame counted for every gap the sum is the size
\* of the wheel after the initialisation, it never grows, and a step takes fewer
\* than data_size_block_min bytes from it for each block that it places and
\* nothing when it places none
C13_NoBytesGained ==
    /\ Accounted(schema) = WheelSize
    /\ [][/\ Accounted(schema') <= Accounted(schema)
          /\ Accounted(schema) - Accounted(schema')
                 <= Cardinality(Placed) * (data_size_block_min - 1)]_vars

\* a block was placed in a gap and bytes were lost behind it
C13_Witness == Accounted(schema) < WheelSize /\ Cardinality(DOMAIN schema.blocks) > 1

\* the entries of the block index with their headers
IndexEntries(sch) ==
    {[id |-> b, offset |-> sch.blocks[b].offset, header |-> "Regular"] :
        b \in DOMAIN sch.blocks}
        \cup {[id |-> sch.eof.id, offset |-> sch.eof.offset, header |-> "EndOfFile"]}

HandedOut ==
    DOMAIN schema.blocks \cup {schema.eof.id} \cup deleted \cup DOMAIN written

\* the ids that the step puts into the block index
NewIds == (DOMAIN schema'.blocks \cup {schema'.eof.id})
              \ (DOMAIN schema.blocks \cup {schema.eof.id})

\* C15: every id handed out lies below next_block_id, which never goes back; an id
\* that enters the block index is none of the ids handed out before, those of the
\* deleted blocks included, and is greater than all of them; no id is in the index
\* twice; WriteBlock Done is emitted once for an id
C15_IdsNeverReused ==
    /\ [](\A id \in HandedOut : id < schema.next_block_id)
    /\ [](schema.eof.id \notin DOMAIN schema.blocks)
    /\ [][/\ schema'.next_block_id >= schema.next_block_id
          /\ \A id \in NewIds : /\ id >= schema.next_block_id
                                 /\ \A old \in HandedOut : id > old
          /\ (Replied("WriteBlock") /\ op'.event.op = "Done")
                 => op'.event.block_id \notin DOMAIN written \cup deleted]_vars

\* a write is answered Done with an id greater than that of a block deleted before
\* it, in the place where that block was
C15_Witness ==
    /\ Shows("WriteBlock", "Done")
    /\ \E d \in deleted :
          /\ d \in DOMAIN written
          /\ d < op.event.block_id
          /\ \E f \in disk : f.id = op.event.block_id /\ f.offset = wheel_header_size

\* C16: no assert!, unwrap, panic! or unreachable! of the performer is reached
C16_NeverFails == fault = "none" /\ op.tag # "Panic"

\* the interpreter has completed a defrag task and the performer has taken the
\* completion without a failure
C16_Witness == fault = "none" /\ relocated # {} /\ deleted # {} /\ Polling

\* the ReadBlock and DeleteBlock requests that wait on a block deleted meanwhile
OpenOnDeleted ==
    {o \in open : o.kind \in {"ReadBlock", "DeleteBlock"} /\ o.block_id \in deleted}

\* the completed delete of the block is staged: its queue is being cancelled
Cancelling(id) == done_task.tag = "DeleteBlockRegular" /\ done_task.block_id = id

\* the defrag-tagged tasks in the queue, on the way to the interpreter and there
DefragTasksCount ==
    Cardinality({p \in UNION {{<<id, i>> : i \in 1..Len(tasks_queue.tasks[id])} :
                                  id \in DOMAIN tasks_queue.tasks} :
                    tasks_queue.tasks[p[1]][p[2]].ctx_tag = "Defrag"})
        + (IF op.tag = "InterpretTask" /\ op.task.ctx_tag = "Defrag" THEN 1 ELSE 0)
        + (IF interp.busy /\ interp.task.ctx_tag = "Defrag" THEN 1 ELSE 0)

\* a request that waits on a deleted block waits only while the queue of the block
\* is being cancelled, between two replies of the cancellation
DeletedAnswered ==
    \A o \in OpenOnDeleted : Cancelling(o.block_id) /\ op.tag = "Event"

\* no task stays queued on a deleted block once its cancellation is over
DeletedDrained ==
    \A id \in DOMAIN tasks_queue.tasks \cap deleted : Cancelling(id)

\* every defragmentation in progress has its one task, and no task is without one
DefragCounted == defrag.in_progress_tasks_count = DefragTasksCount

\* no task of a deleted block goes to the interpreter, and what a request on a
\* deleted block hears is NotFound
DeletedNotFound ==
    /\ op'.tag = "InterpretTask" => op'.block_id \notin deleted'
    /\ \A kind \in {"ReadBlock", "DeleteBlock"} :
          Replied(kind) =>
              \A o \in RepliedRequests : o.block_id \in deleted => op'.event.op = "NotFound"

\* C17: when the delete of a block has completed, the requests queued on the block
\* are answered NotFound and the defrag tasks queued on it are taken off the
\* counter before the performer does anything else, and no task of the block
\* reaches the interpreter afterwards
C17_DeleteCancelsQueued ==
    /\ []DeletedAnswered
    /\ []DeletedDrained
    /\ []DefragCounted
    /\ [][DeletedNotFound]_vars

\* a ReadBlock queued behind the delete that completed is answered NotFound while a
\* DeleteBlock queued behind it waits for its turn
C17_Witness ==
    /\ Shows("ReadBlock", "NotFound")
    /\ \E o \in OpenOnDeleted : o.kind = "DeleteBlock" /\ Cancelling(o.block_id)

\* the write of the block has been admitted and has not been completed
WriteInFlight(id) == id \in DOMAIN schema.blocks /\ id \notin DOMAIN written

\* C18: a ReadBlock or DeleteBlock of a block whose write is admitted and not yet
\* completed is not answered NotFound: it gets a task on the block; and a read or
\* delete task of a block goes to the interpreter only after the write of the
\* block was completed, a read task while the frame of the block is in the file
C18_WriteThenReadThenDelete ==
    [][/\ \A kind \in {"ReadBlock", "DeleteBlock"} :
             (Submitted(kind) /\ WriteInFlight(last_req'.block_id))
             => /\ op'.tag = "Idle"
                /\ last_req' \in open'
                /\ \A o \in open' : o.context = issued' => HasTask(o.context)'
                /\ IsTaskOf(tasks_queue'.tasks[last_req'.block_id][
                                 Len(tasks_queue'.tasks[last_req'.block_id])], issued')
       /\ (op'.tag = "InterpretTask" /\ op'.task.kind \in {"ReadBlock", "DeleteBlock"})
             => /\ op'.block_id \in DOMAIN written
                /\ op'.task.kind = "ReadBlock"
                       => \E f \in disk : f.id = op'.block_id /\ f.offset = op'.offset]_vars

\* while the write of a block is at the interpreter a ReadBlock and then a
\* DeleteBlock of the block have been taken and have their tasks, in this order
C18_Witness ==
    /\ last_req.kind = "DeleteBlock"
    /\ last_req \in open
    /\ WriteInFlight(last_req.block_id)
    /\ interp.busy /\ interp.task.kind = "WriteBlock" /\ interp.block_id = last_req.block_id
    /\ Len(TasksOf(tasks_queue, last_req.block_id)) = 2
    /\ TasksOf(tasks_queue, last_req.block_id)[1].kind = "ReadBlock"
    /\ IsTaskOf(TasksOf(tasks_queue, last_req.block_id)[2], last_req.context)

\* the blocks of the index that have a task waiting after the step, the block of
\* the task that the step hands out among them
Waiting == (DOMAIN tasks_queue'.tasks \cap DOMAIN schema'.blocks) \cup {op'.block_id}

\* where the elevator looks: ahead of the interpreter, or everywhere when nothing
\* waits ahead
Ahead ==
    LET ahead == {b \in Waiting : schema'.blocks[b].offset >= interp.offset}
    IN  IF ahead # {} THEN ahead ELSE Waiting

\* C19: a task is handed to the interpreter only with the background slot Idle, and
\* it is of the block with the smallest offset at or after the offset where the
\* last completion has left the interpreter, or of the block with the smallest
\* offset of all when no block with a task lies there
C19_Elevator ==
    [][op'.tag = "InterpretTask" =>
          /\ bg_task.state = "Idle"
          /\ ~interp.busy
          /\ op'.block_id \in DOMAIN schema'.blocks
          /\ op'.offset = schema'.blocks[op'.block_id].offset
          /\ op'.block_id \in Ahead
          /\ \A b \in Ahead : op'.offset <= schema'.blocks[b].offset]_vars

\* a task is handed out for a block ahead of the interpreter while a block before
\* the interpreter has a task waiting
C19_Witness ==
    /\ op.tag = "InterpretTask"
    /\ op.offset >= interp.offset
    /\ \E b \in DOMAIN tasks_queue.tasks \cap DOMAIN schema.blocks :
          schema.blocks[b].offset < interp.offset

\* the tasks of the step's request that the step has added to the queue
PushedTasks ==
    {<<id, i>> \in (DOMAIN tasks_queue'.tasks) \X (1..(MaxRequestsInfo + 1)) :
        /\ i <= Len(tasks_queue'.tasks[id])
        /\ tasks_queue'.tasks[id][i].context = issued'
        /\ tasks_queue'.tasks[id][i].ctx_tag = "External"}

\* C20: a ReadBlock of a block of the index that is in the LRU cache is answered
\* Done with the cached bytes by the step that takes it: no task is pushed, nothing
\* is handed to the interpreter, the queue, the schema, the background slot and the
\* file stay as they are, whatever is queued or in flight for the block; a
\* ReadBlock of a block of the index that is not cached returns Idle with exactly
\* one task pushed, an External ReadBlock at the end of the FIFO of the block
C20_ReadHitOrMiss ==
    [][(Submitted("ReadBlock") /\ last_req'.block_id \in DOMAIN schema.blocks) =>
          LET id == last_req'.block_id
          IN  IF lru_has(lru_cache, id)
              THEN /\ AnsweredAtOnce("Done")
                   /\ op'.event.block_bytes = lru_bytes(lru_cache, id)
                   /\ PushedTasks = {}
                   /\ UNCHANGED <<tasks_queue, schema, defrag, interp, disk>>
                   /\ bg_task'.block_id = bg_task.block_id
                   /\ bg_task'.current_offset = bg_task.current_offset
                   /\ bg_task'.state = "Idle" <=> bg_task.state = "Idle"
              ELSE /\ op'.tag = "Idle"
                   /\ PushedTasks = {<<id, Len(TasksOf(tasks_queue, id)) + 1>>}
                   /\ tasks_queue'.tasks =
                         push_task(tasks_queue, id,
                                   Task("ReadBlock", "External", issued', NoGaps, NoBytes,
                                        schema.blocks[id].size, NoId)).tasks
                   /\ \E o \in open' : o.context = issued' /\ o.kind = "ReadBlock"
                   /\ UNCHANGED <<schema, lru_cache, interp, disk>>
                   /\ bg_task'.block_id = bg_task.block_id
                   /\ bg_task'.current_offset = bg_task.current_offset
                   /\ bg_task'.state = "Idle" <=> bg_task.state = "Idle"]_vars

\* a read is answered from the cache while the external delete of the block is at
\* the interpreter
C20_Witness ==
    /\ Shows("ReadBlock", "Done")
    /\ op.event.context = issued
    /\ interp.busy
    /\ interp.block_id = last_req.block_id
    /\ interp.task.kind = "DeleteBlock"
    /\ interp.task.ctx_tag = "External"

\* the bytes of the file that a gap of the index stands for: from the end of the
\* block on its left (the end-of-file entry for the gap at the end, the wheel header
\* for the gap at the start) to the block on its right (the end of the file)
GapRegion(sch, g) ==
    [from |-> IF g.right = NoId THEN sch.eof.offset
              ELSE IF g.left = NoId THEN wheel_header_size
              ELSE sch.blocks[g.left].offset + data_size_block_min + sch.blocks[g.left].size,
     to |-> IF g.right = NoId THEN sch.size_bytes_total ELSE sch.blocks[g.right].offset]

\* the frame of block id of the index lies within the region
PlacedIn(sch, id, region) ==
    /\ id \in DOMAIN sch.blocks
    /\ sch.blocks[id].offset >= region.from
    /\ sch.blocks[id].offset + data_size_block_min + sch.blocks[id].size <= region.to

\* the gap that the latest delete has left
FreedGap == CHOOSE g \in schema.gaps : SpaceKeyOf(g) = freed.key

\* the step takes a write that is no larger than the block deleted last, with the
\* gap of that delete in the index and no write held as pending
WriteAfterDelete ==
    /\ Submitted("WriteBlock")
    /\ freed.key # NoKey
    /\ defrag.pending = << >>
    /\ SubmittedLen <= freed.size

\* the write is admitted by the step that takes it and gets an id never handed out
AdmittedFresh ==
    /\ op'.tag = "Idle"
    /\ defrag'.pending = << >>
    /\ schema.next_block_id \notin HandedOut
    /\ schema.next_block_id \in DOMAIN schema'.blocks
    /\ schema'.blocks[schema.next_block_id].size = SubmittedLen
    /\ \E o \in open' : o.context = issued'
    /\ \E p \in PushedTasks : p[1] = schema.next_block_id

\* C21: after DeleteBlock Done for a block of size s, with no write pending, a
\* WriteBlock of at most s bytes is admitted by the step that takes it, gets a
\* fresh id and is placed inside the region that the delete has freed
C21_FreedSpaceReused ==
    [][WriteAfterDelete =>
          /\ AdmittedFresh
          /\ PlacedIn(schema', schema.next_block_id, GapRegion(schema, FreedGap))]_vars

\* C21, amended: such a write is admitted by the step that takes it, gets a fresh
\* id and is placed inside a gap of the index that fits it, no gap that fits it
\* being smaller; that gap is the one the delete has freed when no other gap fits
C21_FreedSpaceReusedBestFit ==
    [][WriteAfterDelete =>
          /\ AdmittedFresh
          /\ FreedGap.space_available >= freed.size
          /\ \E h \in schema.gaps :
                /\ h.space_available >= SubmittedLen
                /\ PlacedIn(schema', schema.next_block_id, GapRegion(schema, h))
                /\ \A k \in schema.gaps :
                      k.space_available >= SubmittedLen
                          => k.space_available >= h.space_available
          /\ (\A k \in schema.gaps \ {FreedGap} : k.space_available < SubmittedLen)
                 => PlacedIn(schema', schema.next_block_id,
                             GapRegion(schema, FreedGap))]_vars

\* a write taken after a delete is placed before a block of the index, where the
\* deleted block was
C21_Witness ==
    /\ op.tag = "Idle"
    /\ last_req.kind = "WriteBlock"
    /\ deleted # {}
    /\ freed.key = NoKey
    /\ \E b \in DOMAIN schema.blocks :
          /\ IsRegular(schema, RightNeighbor(schema, b))
          /\ \E i \in 1..Len(TasksOf(tasks_queue, b)) :
                /\ TasksOf(tasks_queue, b)[i].kind = "WriteBlock"
                /\ IsTaskOf(TasksOf(tasks_queue, b)[i], issued)

StrictlyIncreasing(seq) == \A i, j \in 1..Len(seq) : i < j => seq[i] < seq[j]

Items(c) == {iterated[c].items[i] : i \in 1..Len(iterated[c].items)}

IsIterTask(task, stream) ==
    task.kind = "ReadBlock" /\ task.ctx_tag = "IterBlocks" /\ task.context = stream

\* the iteration goes on: the stream is being made, or it is with the client between
\* an item and the request for the next, or a read of the iteration is in the queue,
\* on its way to the interpreter or there
IterAlive(stream) ==
    \/ op.tag = "MakeIterBlocksStream" /\ op.event.context = stream
    \/ \E st \in streams : st.context = stream
    \/ \E id \in DOMAIN tasks_queue.tasks :
          \E i \in 1..Len(tasks_queue.tasks[id]) : IsIterTask(tasks_queue.tasks[id][i], stream)
    \/ op.tag = "InterpretTask" /\ IsIterTask(op.task, stream)
    \/ interp.busy /\ IsIterTask(interp.task, stream)

\* the items of every iteration come in strictly increasing order of the ids, so
\* no block comes twice, and no iteration is finished twice
IterInOrder ==
    \A c \in DOMAIN iterated :
        StrictlyIncreasing(iterated[c].items) /\ iterated[c].finished <= 1

\* an iteration that has not finished goes on
IterGoesOn ==
    \A c \in DOMAIN iterated : iterated[c].finished = 0 => IterAlive(c)

\* an item is of a block of the index, with the cursor behind it, to an iteration
\* that has not finished; at the finish every block that has been in the index
\* during the whole iteration has been emitted
IterItems ==
    /\ Replied("IterBlocksItem") =>
          /\ op'.event.block_id \in DOMAIN schema'.blocks
          /\ op'.event.block_id \notin deleted'
          /\ op'.event.cursor = IdNext(op'.event.block_id)
          /\ op'.event.context \in DOMAIN iterated
          /\ iterated[op'.event.context].finished = 0
    /\ Replied("IterBlocksFinish") =>
          /\ op'.event.context \in DOMAIN iterated
          /\ iterated[op'.event.context].finished = 0
          /\ iterated'[op'.event.context].live \subseteq Items(op'.event.context)

\* C22: an iteration emits its items in strictly increasing order of the block ids,
\* each a block of the index and none deleted; it goes on until IterBlocksFinish is
\* emitted, once, and by then every block that was in the index during the whole
\* iteration has been emitted exactly once
C22_IterBlocks == []IterInOrder /\ []IterGoesOn /\ [][IterItems]_vars

\* an iteration has finished with an item emitted and without the block it had to
\* go to first, which was deleted while the iteration waited on it
C22_Witness ==
    /\ Shows("IterBlocksFinish", "Finish")
    /\ \E c \in DOMAIN iterated :
          /\ iterated[c].finished = 1
          /\ iterated[c].items # << >>
          /\ iterated[c].first # {}
          /\ Min(iterated[c].first) \in deleted \ Items(c)

\* the step hands a task of the defragmentation to the interpreter
MoveDispatched == op'.tag = "InterpretTask" /\ op'.task.ctx_tag = "Defrag"

\* the kind of the defrag task handed out last for the block
LastMove(id) == IF id \in DOMAIN moves THEN moves[id] ELSE "None"

\* the tasks of the defragmentation that are queued on the block
QueuedMoves(q, id) ==
    {i \in 1..Len(TasksOf(q, id)) : TasksOf(q, id)[i].ctx_tag = "Defrag"}

\* the order of the defrag tasks of a block at the interpreter, where a delete may
\* follow the moves of before_delete; the bytes they carry; one at a time; never for
\* a block that a client has deleted; no event at their completion; a block is
\* relocated by the write that ends the sequence
MoveSteps(before_delete) ==
    /\ MoveDispatched =>
          LET id == op'.block_id
              task == op'.task
          IN  /\ id \in DOMAIN schema'.blocks
              /\ id \notin deleted'
              /\ id \in DOMAIN written
              /\ QueuedMoves(tasks_queue', id) = {}
              /\ task.kind = "ReadBlock" =>
                     LastMove(id) \in {"None", "ReadBlock", "WriteBlock"}
              /\ task.kind = "DeleteBlock" =>
                     LastMove(id) \in before_delete /\ task.block_bytes = written[id]
              /\ task.kind = "WriteBlock" =>
                     LastMove(id) = "DeleteBlock" /\ task.block_bytes = written[id]
    /\ (interp.busy /\ ~interp'.busy /\ interp.task.ctx_tag = "Defrag") =>
          /\ op'.tag = "Idle"
          /\ open' = open
          /\ LastMove(interp.block_id) = interp.task.kind
    /\ \A id \in relocated' \ relocated :
          LastMove(id) = "WriteBlock" /\ id \in DOMAIN schema'.blocks

\* C23: the defrag tasks of a block reach the interpreter in the order read, delete,
\* write: a delete only after the read of the move, a write only after the delete,
\* with the same block id and bytes, one sequence at a time; none of them emits an
\* event; none is handed out for a block that a client has deleted
C23_DefragSequence == [][MoveSteps({"ReadBlock"})]_vars

\* C23, amended: as C23, but the read of a move is not handed to the interpreter
\* when it is queued behind another read of the block: it is answered from the
\* result of that read, and the delete follows with the bytes of the block
C23_DefragSequenceSharedRead ==
    [][MoveSteps({"None", "ReadBlock", "WriteBlock"})]_vars

\* a block has gone through the three tasks of a move
C23_Witness ==
    /\ ~interp.busy
    /\ \E id \in relocated \cap DOMAIN schema.blocks : LastMove(id) = "WriteBlock"

\* nothing is queued, staged, pending or in progress in the performer, and no move
\* waits to be started
Quiescent(s) ==
    /\ is_empty_tasks(s.tasks_queue)
    /\ s.bg_task.state = "Idle"
    /\ s.done_task = DoneNone
    /\ s.defrag.in_progress_tasks_count = 0
    /\ s.defrag.pending = << >>
    /\ defrag_tasks_live(s.defrag, s.schema) = {}
    /\ s.fault = "none"

\* a Flush handed to a quiescent performer, followed by the two calls of next that
\* the driver makes
FlushAtRest(s, context) ==
    LET taken == incoming_request_flush(s, context)
        flushed == incoming_poke(taken.inner)
        polled == incoming_poke(flushed.inner)
    IN  [ops |-> <<taken.op, flushed.op, polled.op>>, inner |-> polled.inner]

\* at rest, with no flush queued, a Flush and another Flush after it are answered
\* Flushed and leave the performer as it was
FlushTwiceAtRest ==
    (op.tag = "PollRequest" /\ ~interp.busy /\ Quiescent(Inner)
        /\ tasks_queue.flush = << >>) =>
        LET once == FlushAtRest(Inner, issued + 1)
            twice == FlushAtRest(once.inner, issued + 2)
            ops(c) == <<OpIdle,
                        OpEvent(Event("Flush", c, "Flushed", NoId, NoBytes, NoId)),
                        OpQuery("PollRequest")>>
        IN  /\ once.ops = ops(issued + 1)
            /\ once.inner = Inner
            /\ twice.ops = ops(issued + 2)
            /\ twice.inner = Inner

\* what the steps of the machine do with a Flush at rest: the request is queued and
\* nothing else changes; the next step answers it Flushed and takes it from the
\* queue; the step after returns PollRequest; the performer is as it was
FlushSteps ==
    /\ (Submitted("Flush") /\ op.tag = "PollRequest" /\ ~interp.busy
            /\ Quiescent(Inner) /\ tasks_queue.flush = << >>) =>
          /\ op' = OpIdle
          /\ tasks_queue' = push_flush(tasks_queue, issued')
          /\ open' = open \cup {last_req'}
          /\ UNCHANGED <<schema, lru_cache, defrag, bg_task, done_task, fault, interp, disk>>
    /\ (op.tag = "Idle" /\ ~interp.busy /\ Quiescent(Inner)
            /\ tasks_queue.flush # << >>) =>
          /\ op' = OpEvent(Event("Flush", Head(tasks_queue.flush), "Flushed",
                                 NoId, NoBytes, NoId))
          /\ tasks_queue' = pop_flush(tasks_queue)
          /\ \A o \in open' : o.context # Head(tasks_queue.flush)
          /\ UNCHANGED <<schema, lru_cache, defrag, bg_task, done_task, fault, interp, disk>>
    /\ (Shows("Flush", "Flushed") /\ ~interp.busy /\ Quiescent(Inner)
            /\ tasks_queue.flush = << >>) =>
          /\ op' = OpQuery("PollRequest")
          /\ UNCHANGED <<schema, lru_cache, defrag, bg_task, tasks_queue, done_task,
                         fault, interp, disk, open>>

try_read_block(d, cursor) ==
    LET fs == {f \in d : f.offset = cursor}
        not_a_block == [found |-> FALSE, error |-> FALSE, next_cursor |-> cursor + 1,
                        frame |-> Frame(cursor, NoId, NoBytes)]
    IN  IF fs = {}
        THEN not_a_block
        ELSE LET f == CHOOSE f \in fs : TRUE
             IN  IF f.commit.block_id # f.id
                 THEN not_a_block
                 ELSE IF block_crc(f.bytes) # f.commit.crc
                 THEN [found |-> FALSE, error |-> TRUE, next_cursor |-> cursor, frame |-> f]
                 ELSE [found |-> TRUE, error |-> FALSE,
                       next_cursor |-> cursor + block_header_size + f.size + commit_tag_size,
                       frame |-> f]

\* the inner loop of GenServer::open: the cursor steps a byte at a time, as long as
\* a header fits, to the next place where try_read_block finds a block or fails
next_header(d, file_size, cursor) ==
    Min({c \in cursor .. file_size :
            \/ c + block_header_size > file_size
            \/ try_read_block(d, c).found
            \/ try_read_block(d, c).error})

\* the loop of GenServer::open: every block found is pushed and the cursor jumps
\* behind it; an error of try_read_block ends the open
RECURSIVE locate_blocks(_, _, _, _)
locate_blocks(d, file_size, cursor, pushed) ==
    LET at == next_header(d, file_size, cursor)
        status == try_read_block(d, at)
    IN  IF at + block_header_size > file_size
        THEN [pushed |-> pushed, error |-> FALSE]
        ELSE IF status.error
        THEN [pushed |-> pushed, error |-> TRUE]
        ELSE locate_blocks(d, file_size, status.next_cursor, Append(pushed, status.frame))

\* builder.push_block for every block found, in the order of the offsets; what the
\* performer built holds for a block id is what was pushed last for it
wheel_open(d, file_size) ==
    LET pushed == locate_blocks(d, file_size, wheel_header_size, << >>).pushed
        ids == {pushed[i].id : i \in DOMAIN pushed}
        last(id) == Max({i \in DOMAIN pushed : pushed[i].id = id})
    IN  [id \in ids |-> [offset |-> pushed[last(id)].offset,
                         size |-> pushed[last(id)].size,
                         bytes |-> pushed[last(id)].bytes]]

\* the blocks that are live: written, and not deleted, where the schema has them
LiveBlocks ==
    [id \in DOMAIN schema.blocks |-> [offset |-> schema.blocks[id].offset,
                                      size |-> schema.blocks[id].size,
                                      bytes |-> written[id]]]

\* C25: when a Flush is answered Flushed, opening the file finds exactly the blocks
\* that are written and not deleted, each at its offset, with its size and its
\* bytes, and none of the deleted ones
C25_ReopenAfterFlush ==
    Shows("Flush", "Flushed") =>
        /\ DOMAIN schema.blocks \subseteq DOMAIN written
        /\ wheel_open(disk, WheelSize) = LiveBlocks
        /\ DOMAIN wheel_open(disk, WheelSize) \cap deleted = {}

\* a Flush is answered where one block was deleted, another one was moved and is
\* live, and the file opened holds it
C25_Witness ==
    /\ Shows("Flush", "Flushed")
    /\ deleted # {}
    /\ \E id \in relocated \cap DOMAIN schema.blocks : id \in DOMAIN wheel_open(disk, WheelSize)

\* the writes of the test, as long as no delete has been submitted: the first is
\* placed behind the wheel header; the second behind the first, with the id given,
\* and leaves so many bytes free by the Info reply; the third is answered
\* NoSpaceLeft and places nothing
SampleWrites(second_id, bytes_free) ==
    LET first == IdNext(IdInit) :> [offset |-> 24, size |-> sample_hello_world_len]
        second == second_id :> [offset |-> 73, size |-> sample_hello_world_len]
    IN  (Submitted("WriteBlock") /\ budget.deletes = MaxDeletes) =>
            CASE budget.writes = MaxWrites ->
                   /\ schema.blocks = << >>
                   /\ schema'.blocks = first
              [] budget.writes = MaxWrites - 1 ->
                   /\ schema.blocks = first
                   /\ schema'.blocks = first @@ second
                   /\ info(schema').bytes_free = bytes_free
              [] OTHER ->
                   /\ AnsweredAtOnce("NoSpaceLeft")
                   /\ schema'.blocks = schema.blocks
                   /\ schema'.gaps = schema.gaps

\* C26 as stated: on the empty wheel of the layout 24/20/16/4, two writes of 13
\* bytes get the ids 1 and 2 at 24 and 73 and leave bytes_free 0, a third is
\* answered NoSpaceLeft
C26_SampleWrites == [][SampleWrites(2, 0)]_vars

\* C26: on the empty wheel of 128 bytes of the layout 24/20/16/4, two writes of 13
\* bytes get the ids 1 and 3 at 24 and 73 (the end-of-file entry takes 0, 2 and 4),
\* leave no gap and 2 bytes free by the Info reply, and a third is answered
\* NoSpaceLeft
C26_SampleWritesIds ==
    [][/\ SampleWrites(3, 2)
       /\ (Submitted("WriteBlock") /\ budget.deletes = MaxDeletes
               /\ budget.writes = MaxWrites - 1) =>
             /\ space_total(schema'.gaps) = 0
             /\ schema'.eof = [id |-> 4, offset |-> 122]]_vars

\* the third write is answered NoSpaceLeft with the two blocks in the index
C26_Witness ==
    /\ Shows("WriteBlock", "NoSpaceLeft")
    /\ budget.deletes = MaxDeletes
    /\ budget.writes = MaxWrites - 3
    /\ schema.size_bytes_total = init_size_bytes_total
    /\ DOMAIN schema.blocks = {1, 3}
    /\ schema.blocks[3].offset = 73

\* the blocks with a relocation under way: a defrag-tagged task of the block is in
\* the queue, on its way to the interpreter or there
Relocating ==
    {id \in DOMAIN tasks_queue.tasks :
        \E i \in 1..Len(tasks_queue.tasks[id]) : tasks_queue.tasks[id][i].ctx_tag = "Defrag"}
        \cup (IF op.tag = "InterpretTask" /\ op.task.ctx_tag = "Defrag"
              THEN {op.block_id} ELSE {})
        \cup (IF interp.busy /\ interp.task.ctx_tag = "Defrag" THEN {interp.block_id} ELSE {})

\* the counter stays between 0 and the limit
DefragBounded ==
    /\ 0 <= defrag.in_progress_tasks_count
    /\ defrag.in_progress_tasks_count <= defrag.in_progress_tasks_limit

\* the counter is the number of the relocations under way
DefragSequences == defrag.in_progress_tasks_count = Cardinality(Relocating)

\* the counter goes up by one with a relocation that starts and down by one with a
\* relocation that is finished or cancelled
DefragOnce ==
    /\ defrag'.in_progress_tasks_count \in
           (defrag.in_progress_tasks_count - 1) .. (defrag.in_progress_tasks_count + 1)
    /\ defrag'.in_progress_tasks_count > defrag.in_progress_tasks_count =>
           Relocating' \ Relocating # {}
    /\ defrag'.in_progress_tasks_count < defrag.in_progress_tasks_count =>
           Relocating \ Relocating' # {}

\* neither assertion on the counter fails
DefragAsserted == fault # "assert in_progress_tasks_count > 0"

\* C27: the counter of the defragmentation stays between 0 and its limit and is the
\* number of the relocations started and neither finished nor cancelled; every
\* relocation takes it up once and down once, and the assertions
\* in_progress_tasks_count > 0 hold
C27_DefragCounter ==
    /\ []DefragBounded
    /\ []DefragSequences
    /\ [][DefragOnce]_vars
    /\ []DefragAsserted

\* the counter stands at 1 and no relocation is under way: the block of the
\* relocation was deleted
C27_Witness ==
    /\ defrag.in_progress_tasks_count = 1
    /\ Relocating = {}
    /\ deleted # {}
    /\ ~interp.busy

\* a Flush waits for its reply
FlushOpen == \E o \in open : o.kind = "Flush"

\* C28: every Flush is answered Flushed in the end, the task queue runs empty and
\* the counter of the defragmentation comes back to 0, as long as the interpreter
\* completes the tasks it is handed
C28_FlushAnswered ==
    /\ FlushOpen ~> ~FlushOpen
    /\ []<>(is_empty_tasks(tasks_queue) /\ defrag.in_progress_tasks_count = 0)

\* a Flush is answered after a relocation has been done
C28_Witness ==
    /\ Shows("Flush", "Flushed")
    /\ relocated # {}

\* the step hands a delete of the defragmentation to the interpreter
DefragDeleteDispatched ==
    /\ op'.tag = "InterpretTask"
    /\ op'.task.kind = "DeleteBlock"
    /\ op'.task.ctx_tag = "Defrag"

\* the blocks whose queued defrag delete the step takes off the queue without
\* handing it to the interpreter, the block staying in the index
StaleDropped ==
    {id \in DOMAIN schema'.blocks :
        /\ DefragDeletes(tasks_queue, id) # {}
        /\ DefragDeletes(tasks_queue', id) = {}
        /\ ~(DefragDeleteDispatched /\ op'.block_id = id)}

\* the dispatch of the defrag deletes: one is handed out only with both gaps of its
\* witness still next to the block; a stale one costs one decrement of the counter,
\* leaves the other tasks of the block queued in their order and the block
\* registered for them, and the step ends with the task of the next trigger, or
\* with PollRequest when no trigger is left
DefragDeleteSteps ==
    /\ DefragDeleteDispatched =>
          /\ is_still_relevant(schema', op'.task.defrag_gaps, op'.block_id)
          /\ op'.offset = schema'.blocks[op'.block_id].offset
    /\ (StaleDropped # {} /\ fault' = "none") =>
          /\ defrag'.in_progress_tasks_count =
                defrag.in_progress_tasks_count - Cardinality(StaleDropped)
          /\ \A id \in StaleDropped :
                LET before == TasksOf(tasks_queue, id)
                    stale == before[Min(DefragDeletes(tasks_queue, id))]
                    rest == RemoveAt(before, Min(DefragDeletes(tasks_queue, id)))
                    after == TasksOf(tasks_queue', id)
                IN  /\ Cardinality(DefragDeletes(tasks_queue, id)) = 1
                    /\ ~is_still_relevant(schema', stale.defrag_gaps, id)
                    /\ \/ /\ after = rest
                          /\ rest # << >> => id \in tasks_queue'.triggers
                          /\ rest = << >> => id \notin tasks_queue'.is_queued
                       \/ /\ rest # << >>
                          /\ after = Tail(rest)
                          /\ op'.tag = "InterpretTask"
                          /\ op'.block_id = id
                          /\ op'.task = Head(rest)
          /\ op'.tag \in {"InterpretTask", "PollRequest"}
          /\ op'.tag = "PollRequest" => tasks_queue'.triggers = {}
          /\ op'.tag = "InterpretTask" =>
                bg_task'.state = "Await" /\ bg_task'.block_id = op'.block_id

\* C29: a delete of the defragmentation reaches the interpreter only if both gaps of
\* its witness are still next to the block when it is dispatched; a stale one is
\* dropped with one decrement of the counter, the other tasks of the block are
\* queued again, and the dispatcher goes on to the next trigger in the same step
C29_StaleDefragDelete == [][DefragDeleteSteps]_vars

\* the performer has just dropped the stale defrag delete of a block that is still
\* in the index, and the counter is back at zero
C29_Witness ==
    /\ dropped # {}
    /\ dropped \subseteq DOMAIN schema.blocks
    /\ op.tag \in {"InterpretTask", "PollRequest"}
    /\ defrag.in_progress_tasks_count = 0
    /\ fault = "none"

\* the blocks in the middle of a move: the delete of the move is done and the write
\* of the move is queued on the block, on its way to the interpreter or there
Moving ==
    {id \in DOMAIN tasks_queue.tasks :
        \E i \in 1..Len(tasks_queue.tasks[id]) :
            /\ tasks_queue.tasks[id][i].kind = "WriteBlock"
            /\ tasks_queue.tasks[id][i].ctx_tag = "Defrag"}
        \cup (IF /\ op.tag = "InterpretTask"
                 /\ op.task.kind = "WriteBlock" /\ op.task.ctx_tag = "Defrag"
              THEN {op.block_id} ELSE {})
        \cup (IF /\ interp.busy
                 /\ interp.task.kind = "WriteBlock" /\ interp.task.ctx_tag = "Defrag"
              THEN {interp.block_id} ELSE {})

\* no read and no delete of a client is handed to the interpreter for a block in the
\* middle of a move
MovingUntouched ==
    (op'.tag = "InterpretTask" /\ op'.block_id \in Moving) =>
        /\ op'.task.kind # "ReadBlock"
        /\ ~(op'.task.kind = "DeleteBlock" /\ op'.task.ctx_tag = "External")

\* the performer steps with the result of the delete of a move staged and a read of
\* a client queued on the block: the first such read is answered Done with the
\* bytes of the block, which are those of the staged result
MovingReadsServed ==
    (/\ op.tag \in {"Idle", "Event"}
     /\ done_task.tag = "DeleteBlockDefrag"
     /\ FirstOfKind(tasks_queue, done_task.block_id, "ReadBlock") # 0
     /\ peek_kind(tasks_queue, done_task.block_id, "ReadBlock").ctx_tag = "External") =>
        /\ op'.tag = "Event"
        /\ op'.event.kind = "ReadBlock"
        /\ op'.event.op = "Done"
        /\ op'.event.context =
              peek_kind(tasks_queue, done_task.block_id, "ReadBlock").context
        /\ op'.event.block_bytes = done_task.block_bytes
        /\ op'.event.block_bytes = written[done_task.block_id]
        /\ done_task' = done_task

\* the staged result of the delete of a move is given up only when no read is left
\* in the queue of the block
MovingReadsDrained ==
    (done_task.tag = "DeleteBlockDefrag" /\ done_task' # done_task) =>
        FirstOfKind(tasks_queue', done_task.block_id, "ReadBlock") = 0

\* no request on a block in the middle of a move is answered NotFound
MovingFound ==
    (op'.tag = "Event" /\ op'.event.op = "NotFound") =>
        \A o \in RepliedRequests : o.block_id \notin Moving \cap Moving'

\* a task handed to the interpreter for a block in the middle of a move is the write
\* of the move, or a delete of a client that was queued on the block ahead of it
MovingInOrder ==
    (op'.tag = "InterpretTask" /\ op'.block_id \in Moving) =>
        /\ op'.task = Head(TasksOf(tasks_queue, op'.block_id))
        /\ \/ op'.task.kind = "WriteBlock" /\ op'.task.ctx_tag = "Defrag"
           \/ op'.task.kind = "DeleteBlock" /\ op'.task.ctx_tag = "External"

\* the delete of a client that is done on a block in the middle of a move is
\* answered Done and takes the block out of the index
MovingDeleted ==
    (/\ interp.busy /\ ~interp'.busy /\ fault' = "none"
     /\ interp.task.kind = "DeleteBlock" /\ interp.task.ctx_tag = "External"
     /\ interp.block_id \in Moving) =>
        /\ op'.tag = "Event"
        /\ op'.event.kind = "DeleteBlock"
        /\ op'.event.op = "Done"
        /\ op'.event.context = interp.task.context
        /\ interp.block_id \notin DOMAIN schema'.blocks

\* C30: while a block is in the middle of a move, between the end of the delete and
\* the end of the write of the move, no read and no delete of a client is handed to
\* the interpreter for it, the reads queued on it are answered Done with its bytes
\* from the staged result of the delete, and no request on it is answered NotFound
C30_MoveUndisturbed ==
    [][MovingUntouched /\ MovingReadsServed /\ MovingReadsDrained /\ MovingFound]_vars

\* C30, amended: as C30 for the reads; a delete of a client that was queued on the
\* block ahead of the write of the move is handed to the interpreter before that
\* write, is answered Done and takes the block out of the index
C30_MoveReadsUndisturbed ==
    [][/\ op'.tag = "InterpretTask" /\ op'.block_id \in Moving
          => op'.task.kind # "ReadBlock"
       /\ MovingInOrder
       /\ MovingDeleted
       /\ MovingReadsServed
       /\ MovingReadsDrained
       /\ MovingFound]_vars

\* a read of a client that was queued on a block during the delete of its move is
\* answered Done with the bytes of the block while the write of the move is queued
C30_Witness ==
    /\ Shows("ReadBlock", "Done")
    /\ done_task.tag = "DeleteBlockDefrag"
    /\ done_task.block_id \in Moving
    /\ op.event.block_bytes = written[done_task.block_id]
    /\ ~lru_has(lru_cache, done_task.block_id)

\* C31: when the performer waits for input after an external delete has completed,
\* the pending queue has been flushed against the gap that the delete has freed:
\* while that gap is in the index, the write at the front of the pending queue does
\* not fit it, whatever was queued on the deleted block
C31_FlushedAfterDelete ==
    (Polling /\ freed.key # NoKey /\ defrag.pending # << >>) =>
        Head(defrag.pending).space_required > freed.key.space_available

\* a write that was held in the pending queue has been placed in the gap freed by a
\* delete, with no move of a block, and answered Done
C31_Witness ==
    /\ Polling
    /\ deleted # {}
    /\ relocated = {}
    /\ \E context \in held : WriteDone(context)

\* the contexts of the writes in the pending queue, in the order of the queue
PendingContexts(pending) == [i \in 1..Len(pending) |-> pending[i].context]

\* a step takes writes from the front of the pending queue only and adds one at the
\* back only: what it leaves is a tail of the queue, in the same order, followed at
\* most by the write it takes from the clients
PendingFifo ==
    \E k \in 0..Len(defrag.pending) :
        LET rest == SubSeq(defrag.pending, k + 1, Len(defrag.pending))
        IN  \/ defrag'.pending = rest
            \/ /\ Submitted("WriteBlock")
               /\ Len(defrag'.pending) = Len(rest) + 1
               /\ SubSeq(defrag'.pending, 1, Len(rest)) = rest
               /\ defrag'.pending[Len(rest) + 1].context = issued'

\* the writes that leave the pending queue are placed: each gets a block and a
\* write task, the ids of the blocks follow the order of the queue
PendingPlaced ==
    \A i \in 1..Len(defrag.pending) :
        LET context == defrag.pending[i].context
            Queued(id) == \E j \in 1..Len(TasksOf(tasks_queue', id)) :
                              /\ TasksOf(tasks_queue', id)[j].kind = "WriteBlock"
                              /\ TasksOf(tasks_queue', id)[j].context = context
            Handed(id) == /\ op'.tag = "InterpretTask" /\ op'.block_id = id
                          /\ op'.task.kind = "WriteBlock" /\ op'.task.context = context
        IN  (context \notin {defrag'.pending[j].context : j \in 1..Len(defrag'.pending)}
             /\ fault' = "none") =>
                /\ \E id \in DOMAIN schema'.blocks \ DOMAIN schema.blocks :
                       Queued(id) \/ Handed(id)
                /\ \A j \in 1..(i - 1) :
                       defrag.pending[j].context
                           \notin {defrag'.pending[n].context : n \in 1..Len(defrag'.pending)}

\* the writes in the pending queue are in the order in which they were submitted
PendingOrdered ==
    \A i, j \in 1..Len(defrag.pending) :
        i < j => defrag.pending[i].context < defrag.pending[j].context

\* C32: the pending queue is a FIFO: the writes held in it are placed in the order in
\* which they were queued, and the draining takes from the front only and leaves the
\* rest in its order
C32_PendingFifo == []PendingOrdered /\ [][PendingFifo /\ PendingPlaced]_vars

\* two writes were held in the pending queue; the one queued first has been placed
\* and answered Done, the other one is still in the queue
C32_Witness ==
    \E a, b \in held :
        /\ a < b
        /\ WriteDone(a)
        /\ PendingContexts(defrag.pending) = <<b>>

\* the step takes a write and places it at once: the id that was next is in the index
PlacedAtOnce == Submitted("WriteBlock") /\ schema.next_block_id \in DOMAIN schema'.blocks

\* the offset of the new block for the gap it was allocated in: behind the wheel header
\* (StartAndBlock), behind the frame of the left block (TwoBlocks), at the end-of-file
\* entry (BlockAndEnd), which then moves behind the frame of the new block
PlacedOffset(g) ==
    LET id == schema.next_block_id
        O == schema'.blocks[id].offset
    IN  /\ schema'.blocks[id].size = SubmittedLen
        /\ g.space_available >= SubmittedLen
        /\ (g.left = NoId /\ g.right # NoId) => O = wheel_header_size
        /\ (g.left # NoId /\ g.right # NoId) =>
               O = schema.blocks[g.left].offset + data_size_block_min
                       + schema.blocks[g.left].size
        /\ g.right = NoId =>
               /\ g.left = schema.eof.id
               /\ O = schema.eof.offset
               /\ schema'.eof.offset = O + data_size_block_min + SubmittedLen
               /\ schema'.eof.id = IdNext(id)
        /\ g.right # NoId => schema'.eof = schema.eof

\* the gap on the right of the new block: one of (remaining - data_size_block_min)
\* bytes exactly when remaining >= data_size_block_min, between the new block (the
\* new end-of-file entry) and the right neighbour
PlacedGap(g) ==
    LET id == schema.next_block_id
        remaining == g.space_available - SubmittedLen
        new == schema'.gaps \ schema.gaps
    IN  /\ (new # {}) <=> (remaining >= data_size_block_min)
        /\ \A h \in new :
              /\ new = {h}
              /\ h.space_available = remaining - data_size_block_min
              /\ h.right = g.right
              /\ h.left = IF g.right = NoId THEN schema'.eof.id ELSE id

\* the defragmentation task of the placement: at most one, for the right neighbour,
\* which is a regular block
PlacedDefrag(g) ==
    \A t \in defrag'.tasks \ defrag.tasks :
        /\ defrag'.tasks \ defrag.tasks = {t}
        /\ t.moving_block_id = g.right
        /\ IsRegular(schema, g.right)
        /\ RightNeighbor(schema', schema.next_block_id) = g.right
        /\ t.defrag_gaps.left # NoKey

\* the placement of the write taken by the step, in the one gap that the step consumes
PlacedInGap ==
    /\ Cardinality(schema.gaps \ schema'.gaps) = 1
    /\ \A g \in schema.gaps \ schema'.gaps :
          PlacedOffset(g) /\ PlacedGap(g) /\ PlacedDefrag(g)
    /\ defrag.tasks \subseteq defrag'.tasks

Rejected ==
    /\ Submitted("WriteBlock")
    /\ op'.tag = "Event" /\ op'.event.kind = "WriteBlock" /\ op'.event.op = "NoSpaceLeft"

\* C34: a write answered NoSpaceLeft leaves the state of the planner as it was: the
\* block index, the gap index, the task queue, the defragmentation queues and the
\* next block id
C34_RejectedWriteFrame ==
    [][Rejected => /\ schema' = schema
                   /\ tasks_queue' = tasks_queue
                   /\ defrag' = defrag]_vars

\* a write was answered NoSpaceLeft with blocks in the index and the next write
\* still to come
C34_Witness ==
    /\ Shows("WriteBlock", "NoSpaceLeft")
    /\ DOMAIN schema.blocks # {}
    /\ budget.writes > 0

\* a task has been accepted by the interpreter and its completion was not received
TaskOutstanding == interp.busy

\* the performer waits for the clients and the interpreter exactly when a task is
\* outstanding, with the background slot in Await for the time of the wait
WaitsForBoth ==
    /\ op.tag = "PollRequestAndInterpreter" <=> (Polling /\ TaskOutstanding)
    /\ op.tag = "PollRequestAndInterpreter" => bg_task.state = "Await"

\* the performer waits for the clients only with no task outstanding, the background
\* slot Idle and no block waiting for its turn at the interpreter
WaitsForClients ==
    op.tag = "PollRequest" =>
        /\ ~TaskOutstanding
        /\ bg_task.state = "Idle"
        /\ tasks_queue.triggers = {}

\* the performer is poked with the background slot Idle or InProgress, and the slot
\* is InProgress when the poke comes with a task outstanding
PokedOutOfAwait ==
    op.tag \in {"Idle", "Event"} =>
        /\ bg_task.state \in {"Idle", "InProgress"}
        /\ bg_task.state = "InProgress" <=> TaskOutstanding

\* C35: the performer waits with PollRequestAndInterpreter exactly when a task has
\* been accepted and its completion is not yet received, with PollRequest only when
\* no task is outstanding and no trigger is pending, and it is never poked in Await
C35_WaitingShape ==
    /\ WaitsForBoth
    /\ WaitsForClients
    /\ PokedOutOfAwait
    /\ fault # "unreachable: poke in Await"

\* the performer waits for the clients and the interpreter, which has the second
\* task, with a request open
C35_Witness ==
    /\ op.tag = "PollRequestAndInterpreter"
    /\ TaskOutstanding
    /\ DOMAIN written # {}
    /\ open # {}

\* the bytes of the file that the frame of block a of the index takes: from its
\* offset up to, and not including, Footprint(a).to
Footprint(a) ==
    [from |-> schema.blocks[a].offset,
     to |-> schema.blocks[a].offset + data_size_block_min + schema.blocks[a].size]

\* the frames of the blocks of the index share no byte and lie between the wheel
\* header and the end of the wheel
FootprintsDisjoint ==
    \A a \in DOMAIN schema.blocks :
        /\ Footprint(a).from >= wheel_header_size
        /\ Footprint(a).to <= schema.size_bytes_total
        /\ \A b \in DOMAIN schema.blocks \ {a} :
              Footprint(a).to <= Footprint(b).from \/ Footprint(b).to <= Footprint(a).from

\* a write task is handed to the interpreter with the offset that the block has in
\* the index when it is handed out
WriteAtIndexOffset ==
    (op.tag = "InterpretTask" /\ op.task.kind = "WriteBlock") =>
        /\ IsRegular(schema, op.block_id)
        /\ op.offset = schema.blocks[op.block_id].offset
        /\ op.task.block_bytes.len = schema.blocks[op.block_id].size

\* a block that waits in the trigger set for its turn keeps its offset, so that the
\* offset under which it was registered is the one it has when it is handed out
TriggerKeepsOffset ==
    \A id \in tasks_queue.triggers \cap tasks_queue'.triggers :
        (IsRegular(schema, id) /\ IsRegular(schema', id)) =>
            schema'.blocks[id].offset = schema.blocks[id].offset

\* C36: the frames [offset, offset + data_size_block_min + size) of the blocks of the
\* index are pairwise disjoint and lie between wheel_header_size and the size of the
\* wheel, and every write task is handed to the interpreter with the offset of its
\* block in the index
C36_Footprints ==
    /\ []FootprintsDisjoint
    /\ []WriteAtIndexOffset
    /\ [][TriggerKeepsOffset]_vars

\* the write of a moved block is handed out at its new offset, with a block on each
\* side of it in the index
C36_Witness ==
    /\ op.tag = "InterpretTask"
    /\ op.task.kind = "WriteBlock"
    /\ op.task.ctx_tag = "Defrag"
    /\ Cardinality(DOMAIN schema.blocks) > 1
    /\ op.block_id \in DOMAIN schema.blocks

\* the ids that have an entry in the LRU cache
LruKeys(lru) == {lru[i].id : i \in 1..Len(lru)}

\* every entry of the LRU cache is of a block of the index and holds the bytes that
\* were written for it; no block has two entries
LruCoherent ==
    /\ \A i \in 1..Len(lru_cache) :
          /\ lru_cache[i].id \in DOMAIN schema.blocks
          /\ lru_cache[i].id \in DOMAIN written
          /\ lru_cache[i].bytes = written[lru_cache[i].id]
          /\ lru_cache[i].bytes.len = schema.blocks[lru_cache[i].id].size
    /\ Cardinality(LruKeys(lru_cache)) = Len(lru_cache)

\* the step takes the completion of a read of block id from the interpreter
ReadCompleted(id) ==
    /\ interp.busy /\ ~interp'.busy
    /\ interp.task.kind = "ReadBlock"
    /\ interp.block_id = id

\* the step takes the completion of an external delete of block id
DeleteCompleted(id) ==
    /\ interp.busy /\ ~interp'.busy
    /\ interp.task.kind = "DeleteBlock"
    /\ interp.task.ctx_tag = "External"
    /\ interp.block_id = id

\* an entry comes into the cache by the completion of a read of its block only; an
\* entry leaves it by the completion of the external delete of its block, or when
\* the entry of another read takes its room; the block of a completed external
\* delete has no entry
LruSteps ==
    /\ \A id \in LruKeys(lru_cache') \ LruKeys(lru_cache) : ReadCompleted(id)
    /\ \A id \in LruKeys(lru_cache) \ LruKeys(lru_cache') :
          \/ DeleteCompleted(id)
          \/ \E other \in LruKeys(lru_cache') \ {id} : ReadCompleted(other)
    /\ \A id \in DOMAIN schema.blocks :
          (DeleteCompleted(id) /\ fault' = "none") =>
              /\ id \notin LruKeys(lru_cache')
              /\ id \notin DOMAIN schema'.blocks

\* C37: every key of the LRU cache is a block of the index and the cached bytes are
\* the bytes written for that block; an entry is inserted only when a read completes
\* and is removed when the external delete of its block completes
C37_LruCoherence == []LruCoherent /\ [][LruSteps]_vars

\* the external delete of a block has completed and has taken the entry of the block
\* out of the cache, which still holds the entry of another block
C37_Witness ==
    /\ Shows("DeleteBlock", "Done")
    /\ \E x \in served : x.block_id = op.event.block_id /\ x.kind = "ReadBlock"
    /\ lru_cache # << >>
    /\ LruKeys(lru_cache) \subseteq DOMAIN schema.blocks

\* C38: the writes held in the pending queue never need more bytes than the gaps of
\* the index have in all, and the flush of the pending queue never finds that a
\* write it has popped has no space left
C38_PendingWithinGaps ==
    /\ pending_bytes(defrag.pending) <= space_total(schema.gaps)
    /\ fault # "unreachable: ReplyNoSpaceLeft in flush"

\* a write is held in the pending queue and a write taken after it has been placed
\* in a gap and answered Done
C38_Witness ==
    /\ defrag.pending # << >>
    /\ \E context \in 1..issued :
          /\ context > Head(defrag.pending).context
          /\ WriteDone(context)

\* the step takes from the interpreter the completion of a delete, external or of
\* the defragmentation, of a block of the index
DeleteWritten ==
    /\ interp.busy /\ ~interp'.busy
    /\ interp.task.kind = "DeleteBlock"
    /\ IsRegular(schema, interp.block_id)

\* where the commit tag of the block at the interpreter lies in the file
CommitTagOffset ==
    schema.blocks[interp.block_id].offset + block_header_size
        + schema.blocks[interp.block_id].size

\* C39: a delete of the block at offset O with a payload of s bytes writes the
\* tombstone over the commit tag of the block, from O + block_header_size + s on, and
\* leaves the header and the payload of the block as they are: the interpreter writes
\* from the offset that the performer has passed with the task
C39_TombstoneOnCommitTag ==
    [][DeleteWritten =>
          /\ interp.offset = CommitTagOffset
          /\ interp'.offset = CommitTagOffset + tombstone_tag_size]_vars

\* the delete of a block has completed while the frame of another block is in the
\* file
C39_Witness ==
    /\ Shows("DeleteBlock", "Done")
    /\ disk # {}
    /\ \A f \in disk : f.id # op.event.block_id

(***************************************************************************)
(* Opening a file that was damaged after it was written.                   *)
(***************************************************************************)
\* what may have happened to a frame of the file: nothing; its payload was changed
\* behind the back of its commit tag; its commit tag is the one of another block;
\* there is no commit tag behind its payload
Damage == {"intact", "payload", "commit of another block", "no commit"}

Damaged(f, how) ==
    CASE how = "payload" ->
             [f EXCEPT !.commit = CommitTag(f.id, (block_crc(f.bytes) + 1) % CrcModulus)]
      [] how = "commit of another block" ->
             [f EXCEPT !.commit = CommitTag(IdNext(f.id), block_crc(f.bytes))]
      [] how = "no commit" ->
             [f EXCEPT !.commit = CommitTag(NoId, 0)]
      [] OTHER -> f

\* the files of up to n frames written one behind the other from the offset on, the
\* first with the id, each damaged or not
RECURSIVE WheelFiles(_, _, _)
WheelFiles(n, offset, id) ==
    IF n = 0 THEN {{}}
    ELSE {{}} \cup
         UNION {{{Damaged(Frame(offset, id, [len |-> len, tag |-> id]), how)} \cup rest :
                    rest \in WheelFiles(n - 1, offset + data_size_block_min + len,
                                        IdNext(IdNext(id)))} :
                len \in 1..MaxBlockSize, how \in Damage}

\* GenServer::open of an existing file: the blocks pushed to the builder, or the
\* error of try_read_block
open_existing(d, file_size) ==
    LET located == locate_blocks(d, file_size, wheel_header_size, << >>)
    IN  IF located.error
        THEN [status |-> "BlockCrcMismatch", pushed |-> << >>]
        ELSE [status |-> "Success", pushed |-> located.pushed]

\* GenServer::open
OpenWheel ==
    /\ opened.status = "None"
    /\ opened' = open_existing(disk, schema.size_bytes_total)
    /\ UNCHANGED <<schema, lru_cache, defrag, bg_task, tasks_queue, done_task, fault,
                   op, interp, disk, streams, budget, issued, last_req, last_write,
                   open, deleted, written, served, held, relocated, freed, iterated,
                   moves, dropped>>

\* the wheel is opened on a file that exists
InitOpen ==
    \E enabled \in BOOLEAN, file \in WheelFiles(MaxFrames, wheel_header_size, IdNext(IdInit)) :
        InitFile(WheelSize, enabled, Requests, file)

NextOpen == OpenWheel

SpecOpen == InitOpen /\ [][NextOpen]_vars

\* the frames of the file with the commit tag of their block and a payload that
\* does not have the crc of the tag, and the frames that are whole
CrcMismatched == {f \in disk : f.commit.block_id = f.id /\ block_crc(f.bytes) # f.commit.crc}

Whole == {f \in disk : f.commit.block_id = f.id /\ block_crc(f.bytes) = f.commit.crc}

Pushed == {opened.pushed[i] : i \in DOMAIN opened.pushed}

\* C40: the open of a file that has a frame with a valid header, the commit tag of
\* its block and a payload whose crc is not the one of the tag succeeds; that frame
\* is not pushed to the schema, the scan goes on behind it and the whole frames of
\* the file are pushed
C40_CrcMismatchSkipped ==
    (opened.status # "None" /\ CrcMismatched # {}) =>
        /\ opened.status = "Success"
        /\ Pushed = Whole

\* a file was opened that has a frame whose payload does not match its commit tag,
\* with a whole frame before it and a whole frame behind it
C40_Witness ==
    /\ opened.status # "None"
    /\ \E bad \in CrcMismatched :
          /\ \E f \in Whole : f.offset < bad.offset
          /\ \E f \in Whole : f.offset > bad.offset

====
